---- MODULE Spec2Model ----
(***************************************************************************)
(* A model of the Snapdeal shopping assistant of src/c.py: the intent      *)
(* classifier and query enhancement (AIAssistant.detect_intent and         *)
(* enhance_query), the keyword matcher (_keyword_search), the hybrid       *)
(* retriever (retrieve_relevant_info), the chat entry point                *)
(* (SnapdealRAGChatbot.chat), the Catalog Source client (search_products)  *)
(* and the build of the knowledge base and the index in main.              *)
(*                                                                         *)
(* Strings are sequences of characters; a character is a one-letter TLA+   *)
(* string.  The source file spells the rupee sign as the three characters  *)
(* U+00E2 U+201A U+00B9; they are written "xE2", "x201A", "xB9" here.      *)
(* Floating-point scores are exact rationals [num, den].                   *)
(***************************************************************************)
EXTENDS Integers, Sequences, FiniteSets, TLC

VARIABLES
    knowledge_base,   \* self.knowledge_base: the ordered list of records
    vocabulary,       \* self.vectorizer.vocabulary_: the fitted n-grams
    vector_dimension, \* self.vector_dimension
    index,            \* what has been upserted to the Pinecone index
    op,               \* the operation that ran last
    user_query,       \* its query argument
    top_k,            \* its top_k argument (retrieve, keyword search)
    max_price,        \* its max_price argument (None when absent)
    intent_data,      \* detect_intent's return value
    calls,            \* what the operation called: a set of callee names
    store_request,    \* top_k the store was queried with (None if not queried)
    store_reply,      \* what the store answered ("none", "error" or matches)
    keyword_results,  \* _keyword_search's return value inside retrieve
    result,           \* the list of matches returned by retrieve / keyword search
    raised,           \* TRUE when the operation ended by raising an exception
    response,         \* chat's return value
    enhanced_query,   \* what enhance_query returned (empty when not called)
    pc,               \* where main() is: a build step, the prompt, or exited
    steps,            \* the steps the current build has performed, in order
    catalog,          \* the Catalog Source's response to each search query
    pinecone,         \* the service's index named index_name
    waited,           \* the readiness loop's counter
    sent,             \* how many vectors the upsert loop has sent
    previous,         \* the generation the build before this one produced
    api_response,     \* what requests.get met in a call of search_products
    max_results       \* that call's max_results argument

\* the variables of the build and of the Catalog Source client
build_vars == <<pc, steps, catalog, pinecone, waited, sent, previous,
                api_response, max_results>>

vars == <<knowledge_base, vocabulary, vector_dimension, index, op, user_query,
          top_k, max_price, intent_data, calls, store_request, store_reply,
          keyword_results, result, raised, response, enhanced_query, pc, steps,
          catalog, pinecone, waited, sent, previous, api_response, max_results>>

-----------------------------------------------------------------------------
(* Python values *)

\* Optional[int] None
None == -1

\* the empty str ''
EmptyStr == << >>

-----------------------------------------------------------------------------
(* str methods *)

UpperChars == <<"A","B","C","D","E","F","G","H","I","J","K","L","M","N","O","P","Q","R","S","T","U","V","W","X","Y","Z">>
LowerChars == <<"a","b","c","d","e","f","g","h","i","j","k","l","m","n","o","p","q","r","s","t","u","v","w","x","y","z">>
Digits     == <<"0","1","2","3","4","5","6","7","8","9">>

\* str.lower() on one character
LowerChar(c) ==
    IF \E i \in 1..Len(UpperChars) : UpperChars[i] = c
    THEN LowerChars[CHOOSE i \in 1..Len(UpperChars) : UpperChars[i] = c]
    ELSE c

\* str.lower()
Lower(s) == [i \in 1..Len(s) |-> LowerChar(s[i])]

\* the regex class \s and what str.strip() / str.split() treat as blank
IsSpace(c) == c \in {" ", "\t"}

\* the regex class \d and [0-9]
IsDigit(c) == \E i \in 1..Len(Digits) : Digits[i] = c

DigitVal(c) == (CHOOSE i \in 1..Len(Digits) : Digits[i] = c) - 1

\* int() of a string of decimal digits
RECURSIVE ParseInt(_)
ParseInt(s) ==
    IF s = << >> THEN 0
    ELSE 10 * ParseInt(SubSeq(s, 1, Len(s) - 1)) + DigitVal(s[Len(s)])

\* str.strip()
Strip(s) ==
    LET keep == {i \in 1..Len(s) : ~IsSpace(s[i])}
    IN  IF keep = {} THEN << >>
        ELSE SubSeq(s, CHOOSE i \in keep : \A j \in keep : i <= j,
                       CHOOSE i \in keep : \A j \in keep : j <= i)

\* s[i:].startswith(lit)
StartsWithAt(s, i, lit) ==
    /\ i >= 1
    /\ i + Len(lit) - 1 <= Len(s)
    /\ \A k \in 1..Len(lit) : s[i + k - 1] = lit[k]

\* `lit in s` for strings; also re.search of a literal
Contains(s, lit) == \E i \in 1..(Len(s) + 1) : StartsWithAt(s, i, lit)

\* ' '.join(words)
RECURSIVE Join(_)
Join(ws) ==
    IF ws = << >> THEN << >>
    ELSE IF Len(ws) = 1 THEN ws[1]
    ELSE ws[1] \o <<" ">> \o Join(Tail(ws))

\* str.split(): the maximal runs of non-blank characters, in order
RECURSIVE Split(_)
Split(s) ==
    IF s = << >> THEN << >>
    ELSE IF IsSpace(s[1]) THEN Split(Tail(s))
    ELSE LET stops == {i \in 1..Len(s) : IsSpace(s[i])}
             e == IF stops = {} THEN Len(s) + 1
                  ELSE CHOOSE i \in stops : \A j \in stops : i <= j
         IN  <<SubSeq(s, 1, e - 1)>> \o Split(SubSeq(s, e, Len(s)))

Min(S) == CHOOSE x \in S : \A y \in S : x <= y
Max(S) == CHOOSE x \in S : \A y \in S : y <= x

-----------------------------------------------------------------------------
(* re.search for the shapes of pattern the source uses *)

NoMatch == [matched |-> FALSE, g1 |-> << >>, g2 |-> << >>]
Matched(a, b) == [matched |-> TRUE, g1 |-> a, g2 |-> b]

\* re.search of `(?:p1|p2|...)(.+)`: the leftmost start, there the first
\* alternative in order that leaves at least one character for (.+), which
\* then runs to the end of the string.
PrefixSearch(s, prefixes) ==
    LET ok(i, p) == /\ StartsWithAt(s, i, prefixes[p])
                    /\ i + Len(prefixes[p]) <= Len(s)
        starts == {i \in 1..Len(s) : \E p \in 1..Len(prefixes) : ok(i, p)}
    IN  IF starts = {} THEN NoMatch
        ELSE LET i == Min(starts)
                 p == Min({q \in 1..Len(prefixes) : ok(i, q)})
             IN  Matched(SubSeq(s, i + Len(prefixes[p]), Len(s)), << >>)

\* re.search of `(?:p1|p2|...)(.+)suffix`: leftmost start, first alternative,
\* and the greedy (.+) ends at the last occurrence of the suffix.
InfixSearch(s, prefixes, suffix) ==
    LET ends(i, p) == {e \in (i + Len(prefixes[p]) + 1)..Len(s) :
                          /\ StartsWithAt(s, i, prefixes[p])
                          /\ StartsWithAt(s, e, suffix)}
        starts == {i \in 1..Len(s) : \E p \in 1..Len(prefixes) : ends(i, p) # {}}
    IN  IF starts = {} THEN NoMatch
        ELSE LET i == Min(starts)
                 p == Min({q \in 1..Len(prefixes) : ends(i, q) # {}})
                 e == Max(ends(i, p))
             IN  Matched(SubSeq(s, i + Len(prefixes[p]), e - 1), << >>)

\* first position >= k that holds no blank (Len(s) + 1 if there is none)
SkipSpaces(s, k) ==
    Min({i \in k..(Len(s) + 1) : i = Len(s) + 1 \/ ~IsSpace(s[i])})

\* end of the maximal run of digits that starts at d (d - 1 if none starts)
DigitsEnd(s, d) ==
    Max({e \in (d - 1)..Len(s) : \A i \in d..e : IsDigit(s[i])})

\* `(?:rs |<rupee>)?(\d+)` at position b: the positions <<first, last>> of
\* the digits of group 2, or << >> when it does not match there.
AmountAt(s, b) ==
    LET d == IF StartsWithAt(s, b, <<"r","s"," ">>) /\ DigitsEnd(s, b + 3) >= b + 3
                 THEN b + 3
             ELSE IF StartsWithAt(s, b, <<"xE2","x201A","xB9">>) /\ DigitsEnd(s, b + 3) >= b + 3
                 THEN b + 3
             ELSE b
    IN  IF DigitsEnd(s, d) >= d THEN <<d, DigitsEnd(s, d)>> ELSE << >>

\* `\s+(?:under|below|less than|within)\s+(?:rs |<rupee>)?(\d+)` matched at
\* position k: the digits' positions, or << >>.
PriceTailAt(s, k, words, anyblank) ==
    LET a == IF anyblank THEN SkipSpaces(s, k) ELSE k + 1
        blankBefore == k <= Len(s) /\ IsSpace(s[k]) /\ (anyblank \/ s[k] = " ")
        hits == {w \in 1..Len(words) : StartsWithAt(s, a, words[w])}
    IN  IF ~blankBefore \/ hits = {} THEN << >>
        ELSE LET w == Min(hits)
                 c == a + Len(words[w])
                 blankAfter == c <= Len(s) /\ IsSpace(s[c])
                                  /\ (anyblank \/ s[c] = " ")
                 b == IF anyblank THEN SkipSpaces(s, c) ELSE c + 1
             IN  IF blankAfter THEN AmountAt(s, b) ELSE << >>

\* line 194: (.+?)\s+(?:under|below|less than|within)\s+(?:rs |<rupee>)?(\d+)
\* The lazy group 1 ends at the first position after which the rest matches.
PricePatternWords == << <<"u","n","d","e","r">>, <<"b","e","l","o","w">>, <<"l","e","s","s"," ","t","h","a","n">>, <<"w","i","t","h","i","n">> >>

PricePatternSearch(s) ==
    LET tail(j) == PriceTailAt(s, j + 1, PricePatternWords, TRUE)
        ends == {j \in 1..Len(s) : tail(j) # << >>}
    IN  \* a match that starts later also matches from the first character
        IF ends = {} THEN NoMatch
        ELSE Matched(SubSeq(s, 1, Min(ends)),
                     SubSeq(s, tail(Min(ends))[1], tail(Min(ends))[2]))

\* line 109: (.+) (?:under|below|less than) (?:rs |<rupee>)?(\d+)
\* The greedy group 1 ends at the last position after which the rest matches.
SearchPriceWords == << <<"u","n","d","e","r">>, <<"b","e","l","o","w">>, <<"l","e","s","s"," ","t","h","a","n">> >>

SearchPriceSearch(s) ==
    LET tail(j) == PriceTailAt(s, j + 1, SearchPriceWords, FALSE)
        ends == {j \in 1..Len(s) : tail(j) # << >>}
    IN  IF ends = {} THEN NoMatch
        ELSE Matched(SubSeq(s, 1, Max(ends)),
                     SubSeq(s, tail(Max(ends))[1], tail(Max(ends))[2]))

-----------------------------------------------------------------------------
(* class AIAssistant *)

\* some alternative of a literal-only pattern occurs somewhere in s
AnyLiteral(s, lits) == \E k \in 1..Len(lits) : Contains(s, lits[k])

\* the first successful search of a pattern list (the for loops of
\* detect_intent return at the first pattern that matches)
FirstMatch(ms) ==
    IF \E k \in 1..Len(ms) : ms[k].matched
    THEN ms[Min({k \in 1..Len(ms) : ms[k].matched})]
    ELSE NoMatch

\* intent_patterns['greeting']: re.search of each pattern on s
greeting_patterns(s) ==
    \/ AnyLiteral(s, << <<"h","i">>, <<"h","e","l","l","o">>, <<"h","e","y">>, <<"g","r","e","e","t","i","n","g","s">> >>)
    \/ AnyLiteral(s, << <<"g","o","o","d"," ","m","o","r","n","i","n","g">>, <<"g","o","o","d"," ","a","f","t","e","r","n","o","o","n">>, <<"g","o","o","d"," ","e","v","e","n","i","n","g">> >>)

\* intent_patterns['thanks']
thanks_patterns(s) ==
    \/ AnyLiteral(s, << <<"t","h","a","n","k","s">>, <<"t","h","a","n","k"," ","y","o","u">> >>)
    \/ Contains(s, <<"a","p","p","r","e","c","i","a","t","e"," ","i","t">>)
    \/ Contains(s, <<"h","e","l","p","f","u","l">>)

\* intent_patterns['price_query']
price_query_patterns(s) ==
    << PrefixSearch(s, << <<"h","o","w"," ","m","u","c","h"," ","i","s"," ">>, <<"h","o","w"," ","m","u","c","h"," ","a","r","e"," ">>, <<"h","o","w"," ","m","u","c","h"," ","d","o","e","s"," ">>,
                          <<"h","o","w"," ","m","u","c","h"," ","d","o"," ">>, <<"h","o","w"," ","m","u","c","h"," ","c","o","s","t"," ">> >>),
       PrefixSearch(s, << <<"p","r","i","c","e"," ","o","f"," ">> >>),
       PrefixSearch(s, << <<"c","o","s","t"," ","o","f"," ">> >>),
       PrefixSearch(s, << <<"w","h","a","t","'","s"," ","t","h","e"," ","p","r","i","c","e"," ","o","f"," ">>, <<"w","h","a","t"," ","i","s"," ","t","h","e"," ","p","r","i","c","e"," ","o","f"," ">> >>) >>

\* intent_patterns['policy_query']
policy_query_patterns(s) ==
    << InfixSearch(s, << <<"w","h","a","t","'","s"," ","t","h","e"," ">>, <<"w","h","a","t","'","s"," ">>, <<"w","h","a","t"," ","i","s"," ","t","h","e"," ">>,
                         <<"w","h","a","t"," ","i","s"," ">>, <<" ","t","h","e"," ">>, <<" ">> >>, <<" ","p","o","l","i","c","y">>),
       PrefixSearch(s, << <<"h","o","w"," ","d","o"," ","i"," ">>, <<"h","o","w"," ","c","a","n"," ","i"," ">> >>),
       PrefixSearch(s, << <<"t","e","l","l"," ","m","e"," ","a","b","o","u","t"," ">> >>),
       PrefixSearch(s, << <<"i","n","f","o","r","m","a","t","i","o","n"," ","a","b","o","u","t"," ">> >>),
       PrefixSearch(s, << <<"e","x","p","l","a","i","n"," ">>, <<"d","e","s","c","r","i","b","e"," ">> >>) >>

\* intent_patterns['search_product']
search_product_patterns(s) ==
    << PrefixSearch(s, << <<"s","h","o","w"," ","m","e"," ">>, <<"s","h","o","w"," ">> >>),
       PrefixSearch(s, << <<"f","i","n","d"," ","m","e"," ">>, <<"f","i","n","d"," ">> >>),
       PrefixSearch(s, << <<"s","e","a","r","c","h"," ","f","o","r"," ">>, <<"s","e","a","r","c","h"," ">> >>),
       PrefixSearch(s, << <<"l","o","o","k","i","n","g"," ","f","o","r"," ">> >>),
       PrefixSearch(s, << <<"i"," ","w","a","n","t"," ">> >>),
       PrefixSearch(s, << <<"n","e","e","d"," ">> >>),
       SearchPriceSearch(s),
       PrefixSearch(s, << <<"b","e","s","t"," ">> >>),
       PrefixSearch(s, << <<"t","o","p"," ">> >>),
       PrefixSearch(s, << <<"c","h","e","a","p","e","s","t"," ">>, <<"c","h","e","a","p"," ">> >>),
       PrefixSearch(s, << <<"g","o","o","d"," ">> >>) >>

\* the dict `entities`: keys is the set of keys it holds
NoEntities == [keys |-> {}, product |-> << >>, topic |-> << >>, max_price |-> None]
ProductEntity(p) == [NoEntities EXCEPT !.keys = {"product"}, !.product = p]
TopicEntity(t) == [NoEntities EXCEPT !.keys = {"topic"}, !.topic = t]
PricedEntity(p, n) ==
    [NoEntities EXCEPT !.keys = {"product", "max_price"}, !.product = p, !.max_price = n]

IntentResult(i, q, e) == [intent |-> i, query |-> q, entities |-> e]

\* dict.get('max_price')
GetMaxPrice(entities) ==
    IF "max_price" \in entities.keys THEN entities.max_price ELSE None

\* a faulty order: the general search rule is tried before the
\* price-constrained one
RuleOrderSearchFirst ==
    << "greeting", "thanks", "price_query", "policy_query", "search_product",
       "price_pattern", "default" >>

\* lines 155-221: the rules of detect_intent, in the order it tries them
\* ("price_pattern" is the price-constrained search of lines 193-204 and
\* "default" the final return of lines 216-221)
RuleOrder ==
    << "greeting", "thanks", "price_query", "policy_query", "price_pattern",
       "search_product", "default" >>

\* the search a rule makes on the lowered, stripped query
RuleMatch(rule, query_lower) ==
    CASE rule = "greeting" ->
             IF greeting_patterns(query_lower) THEN Matched(<< >>, << >>) ELSE NoMatch
      [] rule = "thanks" ->
             IF thanks_patterns(query_lower) THEN Matched(<< >>, << >>) ELSE NoMatch
      [] rule = "price_query" -> FirstMatch(price_query_patterns(query_lower))
      [] rule = "policy_query" -> FirstMatch(policy_query_patterns(query_lower))
      [] rule = "price_pattern" -> PricePatternSearch(query_lower)
      [] rule = "search_product" -> FirstMatch(search_product_patterns(query_lower))
      [] rule = "default" -> Matched(<< >>, << >>)

\* the dict a rule returns when its search `match` succeeded
RuleResult(rule, query, match) ==
    CASE rule = "greeting" -> IntentResult("greeting", query, NoEntities)
      [] rule = "thanks" -> IntentResult("thanks", query, NoEntities)
      [] rule = "price_query" ->
             IntentResult("price_query", Strip(match.g1), ProductEntity(Strip(match.g1)))
      [] rule = "policy_query" ->
             IntentResult("policy_query", Strip(match.g1), TopicEntity(Strip(match.g1)))
      [] rule = "price_pattern" ->
             IntentResult("search_product", Strip(match.g1),
                          PricedEntity(Strip(match.g1), ParseInt(match.g2)))
      [] rule = "search_product" ->
             IntentResult("search_product", Strip(match.g1),
                          ProductEntity(Strip(match.g1)))
      [] rule = "default" -> IntentResult("search_product", query, ProductEntity(query))

\* the rules from the i-th on, tried in order: the first that matches returns
RECURSIVE TryRules(_, _, _)
TryRules(query, query_lower, i) ==
    LET match == RuleMatch(RuleOrder[i], query_lower)
    IN  IF match.matched THEN RuleResult(RuleOrder[i], query, match)
        ELSE TryRules(query, query_lower, i + 1)

\* re.search of `prefix(.+)(?:sep1|sep2|...)(.+)` finds a match
TwoGroupSearch(s, prefix, seps) ==
    \E i \in 1..Len(s) :
        /\ StartsWithAt(s, i, prefix)
        /\ \E e \in (i + Len(prefix) + 1)..Len(s), k \in 1..Len(seps) :
               /\ StartsWithAt(s, e, seps[k])
               /\ e + Len(seps[k]) <= Len(s)

\* intent_patterns['comparison'] (lines 128-132): some pattern matches s
comparison_patterns(s) ==
    \/ TwoGroupSearch(s, <<"c","o","m","p","a","r","e"," ">>, << <<" ","a","n","d"," ">>, <<" ","v","s"," ">>, <<" ","v","e","r","s","u","s"," ">> >>)
    \/ TwoGroupSearch(s, <<"d","i","f","f","e","r","e","n","c","e"," ","b","e","t","w","e","e","n"," ">>, << <<" ","a","n","d"," ">> >>)
    \/ TwoGroupSearch(s, <<"w","h","i","c","h"," ","i","s"," ","b","e","t","t","e","r"," ">>, << <<" ","o","r"," ">> >>)

\* intent_patterns['recommendation'] (lines 133-137): some pattern matches s
recommendation_patterns(s) ==
    \/ PrefixSearch(s, << <<"r","e","c","o","m","m","e","n","d"," ","m","e"," ">>, <<"r","e","c","o","m","m","e","n","d"," ">> >>).matched
    \/ PrefixSearch(s, << <<"s","u","g","g","e","s","t"," ","m","e"," ">>, <<"s","u","g","g","e","s","t"," ">> >>).matched
    \/ PrefixSearch(s, << <<"w","h","a","t"," ","s","h","o","u","l","d"," ","i"," ","b","u","y"," ","f","o","r"," ">>,
                          <<"w","h","a","t"," ","s","h","o","u","l","d"," ","i"," ","g","e","t"," ","f","o","r"," ">> >>).matched

\* a faulty variant: the comparison and recommendation patterns are
\* consulted, before the other rules
DetectIntentAllPatterns(query) ==
    IF comparison_patterns(Strip(Lower(query)))
    THEN IntentResult("comparison", query, NoEntities)
    ELSE IF recommendation_patterns(Strip(Lower(query)))
    THEN IntentResult("recommendation", query, NoEntities)
    ELSE TryRules(query, Strip(Lower(query)), 1)

\* AIAssistant.detect_intent
detect_intent(query) == TryRules(query, Strip(Lower(query)), 1)

-----------------------------------------------------------------------------
(* Records, scores and prices *)

\* a knowledge-base record (a dict): `keys` holds which of the optional keys
\* 'product_name' and 'price' it has; price_type is "int" when the catalog
\* gave the price as a JSON number, and price is then its str()
Doc(id, text, category, keys, product_name, price, price_type) ==
    [id |-> id, text |-> text, category |-> category, keys |-> keys,
     product_name |-> product_name, price |-> price, price_type |-> price_type]

\* a float score, kept exact
Ratio(n, d) == [num |-> n, den |-> d]
ScoreLess(a, b) == a.num * b.den < b.num * a.den

Range(f) == {f[i] : i \in DOMAIN f}

\* the list with the elements at which keep(_) holds, in order
RECURSIVE SelectIdx(_, _, _)
SelectIdx(seq, keep, i) ==
    IF i > Len(seq) THEN << >>
    ELSE (IF i \in keep THEN <<seq[i]>> ELSE << >>) \o SelectIdx(seq, keep, i + 1)

\* a faulty variant: the slice [:n] is left out
TakeAll(seq, n) == seq

\* seq[:n]
Take(seq, n) == SubSeq(seq, 1, IF n < Len(seq) THEN n ELSE Len(seq))

\* Python truthiness of an Optional[int]: `if max_price:`
Truthy(n) == n # None /\ n # 0

\* lines 1496-1498 and 1530-1532: re.search of <rupee>?\s*([0-9,]+) where the
\* source's <rupee> is the three characters xE2 x201A xB9 and only the last
\* one is optional, then int() of group 1 without its commas.
\* "nomatch": the search found nothing; "raise": an exception was raised.
RupeeHead == <<"xE2","x201A">>

IsAmountChar(c) == IsDigit(c) \/ c = ","

AmountStart(s, i) ==
    SkipSpaces(s, IF i + 2 <= Len(s) /\ s[i + 2] = "xB9" THEN i + 3 ELSE i + 2)

ParsePrice(price, price_type) ==
    LET ok(i) == /\ StartsWithAt(price, i, RupeeHead)
                 /\ AmountStart(price, i) <= Len(price)
                 /\ IsAmountChar(price[AmountStart(price, i)])
        starts == {i \in 1..Len(price) : ok(i)}
    IN  IF price_type = "int" THEN [kind |-> "raise", value |-> 0]
        ELSE IF starts = {} THEN [kind |-> "nomatch", value |-> 0]
        ELSE LET b == AmountStart(price, Min(starts))
                 e == Max({k \in b..Len(price) :
                              \A j \in b..k : IsAmountChar(price[j])})
                 digits == SelectIdx(price, {j \in b..e : price[j] # ","}, 1)
             IN  IF digits = << >> THEN [kind |-> "raise", value |-> 0]
                 ELSE [kind |-> "ok", value |-> ParseInt(digits)]

\* dict.get('price', '') with the type of what it returns
GetPrice(d) == IF "price" \in d.keys THEN d.price ELSE EmptyStr
GetPriceType(d) == IF "price" \in d.keys THEN d.price_type ELSE "str"

-----------------------------------------------------------------------------
(* SnapdealRAGChatbot._keyword_search *)

\* lines 1527-1536: the record is skipped by the price filter
KeywordPriceSkip(doc, mp) ==
    /\ Truthy(mp)
    /\ LET p == ParsePrice(GetPrice(doc), GetPriceType(doc))
       IN  p.kind = "ok" /\ p.value > mp

\* a faulty variant: the loop of lines 1546-1549 has no break, so the boost
\* is added for every query word that matches
CategoryBoostEveryWord(doc, query_words) ==
    3 * Cardinality({w \in query_words :
                        \/ Contains(Lower(doc.category), w)
                        \/ Contains(w, Lower(doc.category))})

\* lines 1545-1549: +3 once if some query word is inside the category or the
\* category is inside some query word
CategoryBoost(doc, query_words) ==
    LET category == Lower(doc.category)
    IN  IF \E w \in query_words : Contains(category, w) \/ Contains(w, category)
        THEN 3 ELSE 0

\* lines 1552-1557: +4 for every query word longer than 2 found in the name
ProductNameBoost(doc, query_words) ==
    IF "product_name" \in doc.keys
    THEN 4 * Cardinality({w \in query_words :
                             Len(w) > 2 /\ Contains(Lower(doc.product_name), w)})
    ELSE 0

\* lines 1538-1557: the value of `overlap` when the record is scored
Overlap(doc, query_words) ==
    Cardinality(query_words \cap Range(Split(Lower(doc.text))))
        + CategoryBoost(doc, query_words) + ProductNameBoost(doc, query_words)

\* a faulty variant: a sort that is not stable, putting a record before the
\* records of equal score that precede it in the knowledge base
RECURSIVE InsertBeforeEqual(_, _)
InsertBeforeEqual(sorted, m) ==
    IF sorted = << >> THEN <<m>>
    ELSE IF ~ScoreLess(m.score, sorted[1].score) THEN <<m>> \o sorted
    ELSE <<sorted[1]>> \o InsertBeforeEqual(Tail(sorted), m)

\* line 1567: list.sort(key=score, reverse=True), which is stable
RECURSIVE InsertByScore(_, _)
InsertByScore(sorted, m) ==
    IF sorted = << >> THEN <<m>>
    ELSE IF ScoreLess(sorted[1].score, m.score) THEN <<m>> \o sorted
    ELSE <<sorted[1]>> \o InsertByScore(Tail(sorted), m)

\* a faulty variant: the list of scores is returned as it was built
RECURSIVE SortByScore(_)
Unsorted(seq) == seq

SortByScore(seq) ==
    IF seq = << >> THEN << >>
    ELSE InsertByScore(SortByScore(SubSeq(seq, 1, Len(seq) - 1)), seq[Len(seq)])

\* the list `scores` before it is sorted
KeywordScores(kb, query, mp) ==
    LET query_words == Range(Split(Lower(query)))
        den == IF Cardinality(query_words) > 1 THEN Cardinality(query_words) ELSE 1
        kept == {i \in 1..Len(kb) :
                    ~KeywordPriceSkip(kb[i], mp) /\ Overlap(kb[i], query_words) > 0}
        scored == [i \in 1..Len(kb) |->
                     [id |-> kb[i].id,
                      score |-> Ratio(Overlap(kb[i], query_words), den),
                      metadata |-> kb[i]]]
    IN  SelectIdx(scored, kept, 1)

_keyword_search(kb, query, k, mp) == Take(SortByScore(KeywordScores(kb, query, mp)), k)

-----------------------------------------------------------------------------
(* The TfidfVectorizer of lines 352-359 and the Pinecone index *)

\* the regex class \w of the token pattern (xE2 is a letter, xB9 a digit)
IsWordChar(c) ==
    \/ \E i \in 1..Len(LowerChars) : LowerChars[i] = c \/ UpperChars[i] = c
    \/ IsDigit(c)
    \/ c \in {"_", "xE2", "xB9"}

\* the maximal runs of word characters of s, in order
RECURSIVE WordRuns(_)
WordRuns(s) ==
    IF s = << >> THEN << >>
    ELSE IF ~IsWordChar(s[1]) THEN WordRuns(Tail(s))
    ELSE LET stops == {i \in 1..Len(s) : ~IsWordChar(s[i])}
             e == IF stops = {} THEN Len(s) + 1 ELSE Min(stops)
         IN  <<SubSeq(s, 1, e - 1)>> \o WordRuns(SubSeq(s, e, Len(s)))

\* stop_words='english': the words of that list the model's texts can hold
StopWords ==
    { <<"t","h","e">>, <<"o","f">>, <<"a","n","d">>, <<"f","o","r">>, <<"m","e">>, <<"u","n","d","e","r">>, <<"b","e","l","o","w">>, <<"l","e","s","s">>,
      <<"t","h","a","n">>, <<"w","i","t","h","i","n">>, <<"s","h","o","w">>, <<"f","i","n","d">>, <<"a","b","o","u","t">>, <<"a","c","r","o","s","s">>, <<"o","f","f">>,
      <<"i","s">>, <<"o","n">>, <<"w","i","t","h">>, <<"h","o","w">>, <<"d","o">>, <<"w","h","a","t">>, <<"t","o","p">> }

\* the analyzer: lowercase, tokens of two or more word characters, stop
\* words removed, then every run of 1 to 3 consecutive tokens (ngram_range)
Tokens(text) ==
    LET runs == WordRuns(Lower(text))
    IN  SelectIdx(runs, {i \in 1..Len(runs) :
                            Len(runs[i]) >= 2 /\ runs[i] \notin StopWords}, 1)

NGramList(text) ==
    LET t == Tokens(text)
        spans == {<<i, j>> \in (1..Len(t)) \X (1..Len(t)) : i <= j /\ j <= i + 2}
    IN  [x \in spans |-> Join(SubSeq(t, x[1], x[2]))]

\* the cap max_features on the vocabulary
max_features == 384

\* vectorizer.fit(all_texts): vocabulary_ (the model's knowledge bases stay
\* below max_features, so no term is dropped)
FitVocabulary(kb) == UNION {Range(NGramList(kb[i].text)) : i \in 1..Len(kb)}

\* vectorizer.transform([query]).toarray()[0]: one weight per vocabulary
\* term, positive exactly where the term occurs in the query; the weight kept
\* here is the term's count (tf-idf scales it by a positive factor)
Transform(vocab, query) ==
    LET g == NGramList(query)
    IN  [t \in vocab |-> Cardinality({x \in DOMAIN g : g[x] = t})]

\* np.sum(np.abs(query_vec)) < 1e-10
ZeroVector(vec) == \A t \in DOMAIN vec : vec[t] = 0

\* s[:n]
Truncate(s, n) == SubSeq(s, 1, IF n < Len(s) THEN n ELSE Len(s))

\* lines 1422-1436: the metadata upserted with a record
Metadata(doc) ==
    [text |-> Truncate(doc.text, 1000), category |-> doc.category, keys |-> doc.keys,
     product_name |-> Truncate(doc.product_name, 500),
     price |-> Truncate(doc.price, 100), price_type |-> "str"]

\* lines 1438-1442: the vector upserted for a record
Vector(doc, dim) == [id |-> doc.id, dim |-> dim, metadata |-> Metadata(doc)]

-----------------------------------------------------------------------------
(* SnapdealRAGChatbot.retrieve_relevant_info *)

\* line 1471: top_k asked of the store
StoreTopK(k, mp) == IF Truthy(mp) THEN k * 3 ELSE k

\* lines 1494-1502: the match survives the price filter
VectorPriceKeep(match, mp) ==
    LET p == ParsePrice(GetPrice(match.metadata), GetPriceType(match.metadata))
    IN  p.kind = "ok" /\ p.value <= mp

\* line 1508: the low-confidence threshold 0.3
LowConfidence == Ratio(3, 10)

\* a faulty variant: the comparison with the threshold is reversed
PreferKeywordReversed(formatted_matches, kw) ==
    /\ formatted_matches # << >>
    /\ ScoreLess(LowConfidence, formatted_matches[1].score)
    /\ kw # << >>
    /\ ScoreLess(Ratio(0, 1), kw[1].score)

\* lines 1508-1509
PreferKeyword(formatted_matches, kw) ==
    /\ formatted_matches # << >>
    /\ ScoreLess(formatted_matches[1].score, LowConfidence)
    /\ kw # << >>
    /\ ScoreLess(Ratio(0, 1), kw[1].score)

Return(v) == [raised |-> FALSE, value |-> v]
Raise == [raised |-> TRUE, value |-> << >>]

\* a faulty variant: the store's exception is not caught
OnStoreErrorRaises(kw) == Raise

\* lines 1515-1517: the except clause around the store query
OnStoreError(kw) == Return(kw)

NoReply == [status |-> "none", matches |-> << >>]

\* a faulty variant: the zero-vector test of line 1464 is missing
StoreQueriedAlways(vocab, query) == TRUE

\* line 1464: the store is queried only for a query vector that is not zero
StoreQueried(vocab, query) == ~ZeroVector(Transform(vocab, query))

\* lines 1464-1517: what retrieve_relevant_info returns, given the keyword
\* results `kw`, whether the query vector is not zero (`queried`) and what
\* the store answers (`reply`: "ok" with its matches, "error" when it raised)
MergePolicy(kw, queried, k, mp, reply) ==
    LET formatted_matches == reply.matches
        filtered_matches ==
            SelectIdx(formatted_matches,
                      {i \in 1..Len(formatted_matches) :
                          VectorPriceKeep(formatted_matches[i], mp)}, 1)
    IN  IF ~queried THEN Return(kw)
        ELSE IF reply.status = "error" THEN OnStoreError(kw)
        ELSE IF formatted_matches = << >> THEN Return(kw)
        ELSE IF Truthy(mp) /\ filtered_matches # << >>
            THEN Return(Take(filtered_matches, k))
        ELSE IF PreferKeyword(formatted_matches, kw) THEN Return(kw)
        ELSE Return(Take(formatted_matches, k))

\* retrieve_relevant_info(query, top_k, max_price)
retrieve_relevant_info(kb, vocab, query, k, mp, reply) ==
    MergePolicy(_keyword_search(kb, query, k, mp), StoreQueried(vocab, query),
                k, mp, reply)

-----------------------------------------------------------------------------
(* AIAssistant.enhance_query, generate_response, chat *)

\* lines 234-242, in dict order
category_keywords ==
    << <<<<"p","h","o","n","e">>, <<"s","m","a","r","t","p","h","o","n","e"," ","m","o","b","i","l","e">>>>,
       <<<<"l","a","p","t","o","p">>, <<"l","a","p","t","o","p"," ","n","o","t","e","b","o","o","k"," ","c","o","m","p","u","t","e","r">>>>,
       <<<<"s","h","o","e">>, <<"s","h","o","e","s"," ","f","o","o","t","w","e","a","r">>>>,
       <<<<"d","r","e","s","s">>, <<"d","r","e","s","s"," ","k","u","r","t","i"," ","c","l","o","t","h","i","n","g">>>>,
       <<<<"w","a","t","c","h">>, <<"w","a","t","c","h"," ","s","m","a","r","t","w","a","t","c","h">>>>,
       <<<<"h","e","a","d","p","h","o","n","e">>, <<"h","e","a","d","p","h","o","n","e","s"," ","e","a","r","p","h","o","n","e","s"," ","a","u","d","i","o">>>>,
       <<<<"t","a","b","l","e","t">>, <<"t","a","b","l","e","t"," ","i","p","a","d">>>> >>

\* a faulty variant: the loop of lines 245-248 has no break, so the last
\* rule whose keyword occurs decides
EnhanceQueryLastRule(intent) ==
    LET hits == {k \in 1..Len(category_keywords) :
                    Contains(Lower(intent.query), category_keywords[k][1])}
    IN  IF intent.intent = "search_product" /\ hits # {}
        THEN intent.query \o <<" ">> \o category_keywords[Max(hits)][2]
        ELSE intent.query

\* AIAssistant.enhance_query
enhance_query(intent) ==
    LET hits == {k \in 1..Len(category_keywords) :
                    Contains(Lower(intent.query), category_keywords[k][1])}
    IN  IF intent.intent = "search_product" /\ hits # {}
        THEN intent.query \o <<" ">> \o category_keywords[Min(hits)][2]
        ELSE intent.query

\* a faulty variant: any positive score counts as a valid result
ValidScorePositive(score) == ScoreLess(Ratio(0, 1), score)

\* line 1579 and 1593: score > 0.01
ValidScore(score) == ScoreLess(Ratio(1, 100), score)

\* generate_response: "none" is the canned 'No specific products found'
\* message; otherwise the numbered entries that are listed
generate_response(retrieved_docs) ==
    LET docs == Take(retrieved_docs, 5)
        listed == {i \in 1..Len(docs) :
                      docs[i].metadata.text # EmptyStr /\ ValidScore(docs[i].score)}
        numbered == [i \in 1..Len(docs) |-> [n |-> i, id |-> docs[i].id]]
    IN  IF \A i \in 1..Len(retrieved_docs) : ~ValidScore(retrieved_docs[i].score)
        THEN [kind |-> "none", items |-> << >>]
        ELSE IF listed = {} THEN [kind |-> "none", items |-> << >>]
        ELSE [kind |-> "list", items |-> SelectIdx(numbered, listed, 1)]

NoBody == [kind |-> "empty", items |-> << >>]
NoResponse == [message |-> "none", under |-> None, body |-> NoBody]

\* generate_conversational_response: which message, the price named in the
\* header (None if none) and the body it wraps
generate_conversational_response(intent, rag_response) ==
    IF intent.intent \in {"greeting", "thanks"}
    THEN [message |-> intent.intent, under |-> None, body |-> NoBody]
    ELSE [message |-> intent.intent, under |-> GetMaxPrice(intent.entities),
          body |-> rag_response]

\* a faulty variant: 'thanks' is missing from the list of line 1617
DirectIntentsGreetingOnly == {"greeting"}

\* line 1617: the intents answered without retrieval
DirectIntents == {"greeting", "thanks"}

\* line 1629: chat always retrieves five
ChatTopK == 5

\* the enhanced query and max_price chat passes to retrieve_relevant_info
ChatQuery(intent) == enhance_query(intent)
ChatMaxPrice(intent) == GetMaxPrice(intent.entities)

\* lines 1635-1638: the response built from what was retrieved
Respond(intent, got) ==
    IF got.raised THEN [message |-> "raised", under |-> None, body |-> NoBody]
    ELSE generate_conversational_response(intent, generate_response(got.value))

-----------------------------------------------------------------------------
(* Inputs of the intent classifier *)

\* longest query, in phrases of the lexicon
MaxWords == 3

\* the phrases queries are built from; the empty phrase puts blanks at the
\* ends of a query and doubles them inside it
IntentLexicon ==
    << <<"h","i">>, <<"T","h","a","n","k","s"," ","f","o","r"," ","t","h","e"," ","h","e","l","p">>, <<"s","h","i","r","t","s">>, <<"s","m","a","r","t","p","h","o","n","e","s">>,
       <<"p","r","i","c","e"," ","o","f">>, <<"d","e","l","i","v","e","r","y">>, <<"p","o","l","i","c","y">>, <<"t","e","l","l"," ","m","e"," ","a","b","o","u","t">>,
       <<"s","h","o","w"," ","m","e">>, <<"b","e","s","t">>, <<"u","n","d","e","r"," ","1","5","0","0","0">>, <<"l","e","s","s"," ","t","h","a","n"," ","r","s"," ","5","0","0">>, EmptyStr >>

Phrase(ks) == Join([i \in 1..Len(ks) |-> IntentLexicon[ks[i]]])

IntentInputs ==
    UNION {[1..n -> 1..Len(IntentLexicon)] : n \in 1..MaxWords}

NotRun == [intent |-> "none", query |-> << >>, entities |-> NoEntities]

\* the service has no index named index_name
NoIndex == [exists |-> FALSE, dimension |-> None, ready |-> FALSE]

\* no Catalog Source response has been received
NoCatalog == << >>

\* no build has completed before
NoGeneration == [catalog |-> NoCatalog, ids |-> << >>, dimension |-> None]

\* search_products has not been called
NoApiCall == [outcome |-> "none"]

\* nothing has been built
BuildIdle ==
    /\ steps = << >>
    /\ catalog = NoCatalog
    /\ pinecone = NoIndex
    /\ waited = 0
    /\ sent = 0
    /\ previous = NoGeneration

\* the chatbot's fields and the trace of a call, when nothing has run
Unbuilt ==
    /\ knowledge_base = << >>
    /\ vocabulary = {}
    /\ vector_dimension = None
    /\ index = {}
    /\ top_k = 0
    /\ max_price = None
    /\ calls = {}
    /\ store_request = None
    /\ store_reply = NoReply
    /\ keyword_results = << >>
    /\ result = << >>
    /\ raised = FALSE
    /\ response = NoResponse
    /\ enhanced_query = EmptyStr
    /\ pc = "start"
    /\ BuildIdle

\* likewise, and the Catalog Source client has not been called
Idle ==
    /\ Unbuilt
    /\ api_response = NoApiCall
    /\ max_results = 0

InitIntent ==
    /\ Idle
    /\ op = "input"
    /\ \E ks \in IntentInputs : user_query = Phrase(ks)
    /\ intent_data = NotRun

\* a call of AIAssistant.detect_intent(user_query)
DetectIntent ==
    /\ op = "input"
    /\ op' = "detect_intent"
    /\ intent_data' = detect_intent(user_query)
    /\ UNCHANGED <<knowledge_base, vocabulary, vector_dimension, index, user_query,
                   top_k, max_price, calls, store_request, store_reply,
                   keyword_results, result, raised, response>>
    /\ UNCHANGED build_vars
    /\ UNCHANGED enhanced_query

NextIntent == DetectIntent

SpecIntent == InitIntent /\ [][NextIntent]_vars

-----------------------------------------------------------------------------
(* The chatbot after construction, and its operations *)

\* longest knowledge base, in records
MaxKB == 3

\* largest top_k of a direct call
MaxTopK == 2

\* most matches the store returns to one query
MaxMatches == 2

\* records a build can produce: two fallback products (lines 543-552 and
\* 1027-1036) and a piece of store information (lines 516-522), each text
\* cut to one part of the source's, and two live products (lines 422-432)
\* whose price the catalog gave as a plain numeral and as a JSON number
Pool ==
    << Doc("fb_mobile_1", <<"S","a","m","s","u","n","g"," ","G","a","l","a","x","y"," ","M","1","4"," ","5","G"," ","-"," ","P","r","i","c","e",":"," ","xE2","x201A","xB9","1","2",",","9","9","0">>, <<"s","m","a","r","t","p","h","o","n","e","s">>,
           {"product_name", "price"}, <<"S","a","m","s","u","n","g"," ","G","a","l","a","x","y"," ","M","1","4"," ","5","G">>, <<"xE2","x201A","xB9","1","2",",","9","9","0">>, "str"),
       Doc("fb_fashion_men_2", <<"A","l","l","e","n"," ","S","o","l","l","y"," ","M","e","n"," ","F","o","r","m","a","l"," ","S","h","i","r","t"," ","-"," ","P","r","i","c","e",":"," ","xE2","x201A","xB9","8","9","9">>,
           <<"m","e","n","s","_","f","a","s","h","i","o","n">>, {"product_name", "price"},
           <<"A","l","l","e","n"," ","S","o","l","l","y"," ","M","e","n"," ","F","o","r","m","a","l"," ","S","h","i","r","t">>, <<"xE2","x201A","xB9","8","9","9">>, "str"),
       Doc("info_delivery", <<"d","e","l","i","v","e","r","y"," ","w","i","t","h","i","n"," ","2","-","7"," ","b","u","s","i","n","e","s","s"," ","d","a","y","s"," ","a","c","r","o","s","s"," ","I","n","d","i","a",".">>,
           <<"d","e","l","i","v","e","r","y">>, {}, EmptyStr, EmptyStr, "str"),
       Doc("product_smartphones_0", <<"N","o","k","i","a"," ","1","0","5"," ","-"," ","P","r","i","c","e",":"," ","1",",","2","9","9">>, <<"s","m","a","r","t","p","h","o","n","e","s">>,
           {"product_name", "price"}, <<"N","o","k","i","a"," ","1","0","5">>, <<"1",",","2","9","9">>, "str"),
       Doc("product_smartphones_1", <<"S","a","m","s","u","n","g"," ","G","u","r","u"," ","-"," ","P","r","i","c","e",":"," ","9","9","9">>, <<"s","m","a","r","t","p","h","o","n","e","s">>,
           {"product_name", "price"}, <<"S","a","m","s","u","n","g"," ","G","u","r","u">>, <<"9","9","9">>, "int") >>

KnowledgeBases ==
    {SelectIdx(Pool, S, 1) : S \in {T \in SUBSET (1..Len(Pool)) :
                                       Cardinality(T) \in 1..MaxKB}}

\* cosine scores the store can report
VectorScores == {Ratio(10, 1000), Ratio(100, 1000), Ratio(300, 1000),
                 Ratio(900, 1000)}

\* what index.query can answer when asked for n matches: an error, or at
\* most n matches of distinct upserted vectors, best score first
MatchLists(idx, n) ==
    LET all == {[id |-> v.id, score |-> sc, metadata |-> v.metadata] :
                   v \in idx, sc \in VectorScores}
        lim == Min({n, MaxMatches, Cardinality(idx)})
    IN  UNION {{m \in [1..len -> all] :
                   /\ \A i, j \in 1..len : i < j => m[i].id # m[j].id
                   /\ \A i \in 1..(len - 1) : ~ScoreLess(m[i].score, m[i + 1].score)} :
               len \in 0..lim}

StoreReplies(idx, n) ==
    {[status |-> "error", matches |-> << >>]}
        \cup {[status |-> "ok", matches |-> m] : m \in MatchLists(idx, n)}

\* the answers the store can give to this call (none if it is not asked)
Replies(idx, queried, k, mp) ==
    IF queried THEN StoreReplies(idx, StoreTopK(k, mp)) ELSE {NoReply}

Request(queried, k, mp) == IF queried THEN StoreTopK(k, mp) ELSE None

RetrieveQueries ==
    { <<"s","a","m","s","u","n","g">>, <<"s","m","a","r","t","p","h","o","n","e","s">>, <<"d","e","l","i","v","e","r","y">>, <<"p","r","i","c","e">>, <<"n","o","k","i","a"," ","s","m","a","r","t","p","h","o","n","e","s">> }

MaxPrices == {None, 0, 1000, 12000}

ChatQueries ==
    { <<"h","e","l","l","o">>, <<"T","h","a","n","k","s">>, <<"s","a","m","s","u","n","g">>, <<"s","a","m","s","u","n","g"," ","u","n","d","e","r"," ","1","0","0","0">>,
      <<"s","m","a","r","t","p","h","o","n","e","s"," ","u","n","d","e","r"," ","1","5","0","0","0">>, <<"s","a","m","s","u","n","g"," ","b","e","l","o","w"," ","0">>, <<"d","e","l","i","v","e","r","y"," ","p","o","l","i","c","y">>,
      <<"p","r","i","c","e"," ","o","f"," ","s","a","m","s","u","n","g">> }

\* no call is in progress and none is recorded
Ready ==
    /\ op = "ready"
    /\ user_query = EmptyStr
    /\ top_k = 0
    /\ max_price = None
    /\ intent_data = NotRun
    /\ calls = {}
    /\ store_request = None
    /\ store_reply = NoReply
    /\ keyword_results = << >>
    /\ result = << >>
    /\ raised = FALSE
    /\ response = NoResponse
    /\ enhanced_query = EmptyStr

\* the state after SnapdealRAGChatbot.__init__ (lines 369-376)
Init ==
    /\ \E kb \in KnowledgeBases :
          /\ knowledge_base = kb
          /\ vocabulary = FitVocabulary(kb)
          /\ vector_dimension = Cardinality(FitVocabulary(kb))
          /\ index = {Vector(kb[i], Cardinality(FitVocabulary(kb))) : i \in 1..Len(kb)}
          /\ pinecone = [exists |-> TRUE, ready |-> TRUE,
                         dimension |-> Cardinality(FitVocabulary(kb))]
          /\ sent = Len(kb)
    /\ Ready
    /\ pc = "prompt"
    /\ steps = << >>
    /\ catalog = NoCatalog
    /\ waited = 0
    /\ previous = NoGeneration
    /\ api_response = NoApiCall
    /\ max_results = 0

\* lines 1676-1677 and interface.py line 32: the caller has the answer and
\* waits for the next input
NextInput ==
    /\ op # "ready"
    /\ op' = "ready"
    /\ user_query' = EmptyStr
    /\ top_k' = 0
    /\ max_price' = None
    /\ intent_data' = NotRun
    /\ calls' = {}
    /\ store_request' = None
    /\ store_reply' = NoReply
    /\ keyword_results' = << >>
    /\ result' = << >>
    /\ raised' = FALSE
    /\ response' = NoResponse
    /\ enhanced_query' = EmptyStr
    /\ UNCHANGED <<knowledge_base, vocabulary, vector_dimension, index>>
    /\ UNCHANGED build_vars

\* a faulty variant: the call sorts self.knowledge_base in place (reversing
\* it) instead of sorting its own list of scores
KeywordSearchSortsInPlace ==
    /\ op = "ready"
    /\ \E q \in RetrieveQueries, k \in 1..MaxTopK, mp \in MaxPrices :
           /\ op' = "_keyword_search"
           /\ user_query' = q
           /\ top_k' = k
           /\ max_price' = mp
           /\ intent_data' = NotRun
           /\ calls' = {}
           /\ store_request' = None
           /\ store_reply' = NoReply
           /\ keyword_results' = _keyword_search(knowledge_base, q, k, mp)
           /\ result' = keyword_results'
           /\ raised' = FALSE
           /\ response' = NoResponse
           /\ knowledge_base' = [i \in 1..Len(knowledge_base) |->
                                    knowledge_base[Len(knowledge_base) + 1 - i]]
           /\ UNCHANGED <<vocabulary, vector_dimension, index>>
           /\ UNCHANGED build_vars
           /\ UNCHANGED enhanced_query

\* a call of _keyword_search(q, k, mp)
KeywordSearch ==
    /\ op = "ready"
    /\ \E q \in RetrieveQueries, k \in 1..MaxTopK, mp \in MaxPrices :
           /\ op' = "_keyword_search"
           /\ user_query' = q
           /\ top_k' = k
           /\ max_price' = mp
           /\ intent_data' = NotRun
           /\ calls' = {}
           /\ store_request' = None
           /\ store_reply' = NoReply
           /\ keyword_results' = _keyword_search(knowledge_base, q, k, mp)
           /\ result' = keyword_results'
           /\ raised' = FALSE
           /\ response' = NoResponse
           /\ UNCHANGED <<knowledge_base, vocabulary, vector_dimension, index>>
           /\ UNCHANGED build_vars
           /\ UNCHANGED enhanced_query

\* the same call of _keyword_search made once more on the same object
KeywordSearchAgain ==
    /\ op = "_keyword_search"
    /\ keyword_results' =
           _keyword_search(knowledge_base, user_query, top_k, max_price)
    /\ result' = keyword_results'
    /\ UNCHANGED <<knowledge_base, vocabulary, vector_dimension, index, op,
                   user_query, top_k, max_price, intent_data, calls,
                   store_request, store_reply, raised, response>>
    /\ UNCHANGED build_vars
    /\ UNCHANGED enhanced_query

\* what retrieve_relevant_info calls
RetrieveCalls(queried) ==
    {"transform", "_keyword_search"} \cup (IF queried THEN {"index.query"} ELSE {})

\* a call of retrieve_relevant_info(q, k, mp)
Retrieve ==
    /\ op = "ready"
    /\ \E q \in RetrieveQueries, k \in 1..MaxTopK, mp \in MaxPrices :
         \E kw \in {_keyword_search(knowledge_base, q, k, mp)},
            queried \in {StoreQueried(vocabulary, q)} :
           \E reply \in Replies(index, queried, k, mp) :
             \E got \in {MergePolicy(kw, queried, k, mp, reply)} :
               /\ op' = "retrieve_relevant_info"
               /\ user_query' = q
               /\ top_k' = k
               /\ max_price' = mp
               /\ intent_data' = NotRun
               /\ calls' = RetrieveCalls(queried)
               /\ store_request' = Request(queried, k, mp)
               /\ store_reply' = reply
               /\ keyword_results' = kw
               /\ result' = got.value
               /\ raised' = got.raised
               /\ response' = NoResponse
               /\ UNCHANGED <<knowledge_base, vocabulary, vector_dimension, index>>
               /\ UNCHANGED build_vars
               /\ UNCHANGED enhanced_query

\* lines 1615-1618: a call of chat(q) that answers without retrieval
ChatDirect ==
    /\ op = "ready"
    /\ \E q \in ChatQueries :
         \E intent \in {detect_intent(q)} :
           /\ intent.intent \in DirectIntents
           /\ op' = "chat"
           /\ user_query' = q
           /\ top_k' = 0
           /\ max_price' = None
           /\ intent_data' = intent
           /\ calls' = {"detect_intent", "generate_conversational_response"}
           /\ store_request' = None
           /\ store_reply' = NoReply
           /\ keyword_results' = << >>
           /\ result' = << >>
           /\ raised' = FALSE
           /\ response' = generate_conversational_response(intent, NoBody)
           /\ UNCHANGED <<knowledge_base, vocabulary, vector_dimension, index>>
           /\ UNCHANGED build_vars
           /\ UNCHANGED enhanced_query

\* lines 1615-1638: a call of chat(q) that retrieves
ChatRetrieve ==
    /\ op = "ready"
    /\ \E q \in ChatQueries :
         \E intent \in {detect_intent(q)} :
           \E eq \in {ChatQuery(intent)}, mp \in {ChatMaxPrice(intent)} :
             \E kw \in {_keyword_search(knowledge_base, eq, ChatTopK, mp)},
                queried \in {StoreQueried(vocabulary, eq)} :
               \E reply \in Replies(index, queried, ChatTopK, mp) :
                 \E got \in {MergePolicy(kw, queried, ChatTopK, mp, reply)} :
                   /\ intent.intent \notin DirectIntents
                   /\ op' = "chat"
                   /\ user_query' = q
                   /\ top_k' = ChatTopK
                   /\ max_price' = mp
                   /\ intent_data' = intent
                   /\ calls' = {"detect_intent", "enhance_query",
                                "retrieve_relevant_info", "generate_response",
                                "generate_conversational_response"}
                                   \cup RetrieveCalls(queried)
                   /\ store_request' = Request(queried, ChatTopK, mp)
                   /\ store_reply' = reply
                   /\ keyword_results' = kw
                   /\ result' = got.value
                   /\ raised' = got.raised
                   /\ response' = Respond(intent, got)
                   /\ enhanced_query' = eq
                   /\ UNCHANGED <<knowledge_base, vocabulary, vector_dimension, index>>
                   /\ UNCHANGED build_vars

Next ==
    \/ KeywordSearch
    \/ KeywordSearchAgain
    \/ Retrieve
    \/ ChatDirect
    \/ ChatRetrieve
    \/ NextInput

Spec == Init /\ [][Next]_vars

-----------------------------------------------------------------------------
(* Properties of retrieve_relevant_info, _keyword_search and chat *)

\* the state records a call of retrieve_relevant_info (direct, or from chat)
Retrieved ==
    \/ op = "retrieve_relevant_info"
    \/ op = "chat" /\ "retrieve_relevant_info" \in calls

\* the query that call was given: chat passes the enhanced query (line 1629)
RetrieveQuery == IF op = "chat" THEN ChatQuery(intent_data) ELSE user_query

\* C1: for every query whose embedding is the all-zero vector,
\* retrieve_relevant_info returns exactly the keyword matcher's results for
\* that query, top_k and max_price, and the vector store is never queried
\* during the call.
C1_ZeroVectorKeywordOnly ==
    (Retrieved /\ ZeroVector(Transform(vocabulary, RetrieveQuery))) =>
        /\ ~raised
        /\ result = _keyword_search(knowledge_base, RetrieveQuery, top_k, max_price)
        /\ store_request = None
        /\ store_reply = NoReply
        /\ "index.query" \notin calls

\* a zero-vector query for which the keyword matcher found something
C1_Witness ==
    /\ Retrieved
    /\ ZeroVector(Transform(vocabulary, RetrieveQuery))
    /\ result # << >>
    /\ store_request = None

\* C2: whenever the vector store's query raises during
\* retrieve_relevant_info, the call does not propagate the error: it returns
\* the keyword results computed for the same query, top_k and max_price.
C2_StoreErrorKeywordFallback ==
    (Retrieved /\ store_reply.status = "error") =>
        /\ ~raised
        /\ response.message # "raised"
        /\ result = _keyword_search(knowledge_base, RetrieveQuery, top_k, max_price)

\* the store raised and the keyword results that came back are not empty
C2_Witness ==
    /\ Retrieved
    /\ store_reply.status = "error"
    /\ ~raised
    /\ result # << >>

\* C7: for every query that detect_intent classifies as greeting or thanks,
\* chat returns the fixed greeting / thanks message without calling
\* retrieve_relevant_info, the keyword matcher, the embedder or the store.
C7_DirectAnswerWithoutRetrieval ==
    (op = "chat" /\ detect_intent(user_query).intent \in {"greeting", "thanks"}) =>
        /\ calls \cap {"retrieve_relevant_info", "_keyword_search", "transform",
                       "index.query"} = {}
        /\ store_request = None
        /\ store_reply = NoReply
        /\ response = [message |-> detect_intent(user_query).intent,
                       under |-> None, body |-> NoBody]

\* chat answered a thanks query with the thanks message
C7_Witness ==
    /\ op = "chat"
    /\ detect_intent(user_query).intent = "thanks"
    /\ response.message = "thanks"
    /\ calls = {"detect_intent", "generate_conversational_response"}

\* the price filter of lines 1491-1505 returned its survivors
SurvivorsReturned ==
    /\ Truthy(max_price)
    /\ \E i \in 1..Len(store_reply.matches) :
           VectorPriceKeep(store_reply.matches[i], max_price)

\* the call reached the low-confidence check with a top vector score below
\* 0.3 and keyword results whose top score is positive
LowConfidenceCase ==
    /\ Retrieved
    /\ store_request # None
    /\ store_reply.status = "ok"
    /\ store_reply.matches # << >>
    /\ ~SurvivorsReturned
    /\ ScoreLess(store_reply.matches[1].score, Ratio(3, 10))
    /\ keyword_results # << >>
    /\ ScoreLess(Ratio(0, 1), keyword_results[1].score)

\* C10: when retrieve_relevant_info did not return earlier (non-zero query
\* vector, the store answered with at least one match, no price-filtered
\* survivors were returned) and the top vector score is below 0.3 while the
\* keyword results are non-empty with a positive top score, it returns the
\* keyword results instead of the vector matches.
C10_LowConfidencePrefersKeyword ==
    LowConfidenceCase =>
        /\ ~raised
        /\ result = _keyword_search(knowledge_base, RetrieveQuery, top_k, max_price)

\* the low-confidence case, where the keyword results differ from the matches
C10_Witness ==
    /\ LowConfidenceCase
    /\ result = keyword_results
    /\ result # Take(store_reply.matches, top_k)

-----------------------------------------------------------------------------
(* Properties of detect_intent *)

\* the rule whose pattern is the first to match the lowered, stripped query,
\* from the patterns alone: 1 greeting .. 6 general search, 7 default
FirstMatchingRule(query) ==
    LET s == Strip(Lower(query))
    IN  IF greeting_patterns(s) THEN 1
        ELSE IF thanks_patterns(s) THEN 2
        ELSE IF FirstMatch(price_query_patterns(s)).matched THEN 3
        ELSE IF FirstMatch(policy_query_patterns(s)).matched THEN 4
        ELSE IF PricePatternSearch(s).matched THEN 5
        ELSE IF FirstMatch(search_product_patterns(s)).matched THEN 6
        ELSE 7

\* C3: detect_intent evaluates its rules against the trimmed, lowercased
\* query in the order greeting, thanks, price_query, policy_query,
\* price-constrained search, general search, default, and the result is that
\* of the first rule that matches; a query that matches a thanks pattern and
\* no greeting pattern ("thanks for the help") is classified thanks even
\* when a later search pattern also matches.
C3_FirstMatchingRuleWins ==
    op = "detect_intent" =>
        LET s == Strip(Lower(user_query))
            r == FirstMatchingRule(user_query)
            e == intent_data.entities
        IN  /\ r = 1 => intent_data = IntentResult("greeting", user_query, NoEntities)
            /\ r = 2 => intent_data = IntentResult("thanks", user_query, NoEntities)
            /\ r = 3 =>
                  /\ intent_data.intent = "price_query"
                  /\ e.keys = {"product"}
                  /\ e.product = Strip(FirstMatch(price_query_patterns(s)).g1)
            /\ r = 4 =>
                  /\ intent_data.intent = "policy_query"
                  /\ e.keys = {"topic"}
                  /\ e.topic = Strip(FirstMatch(policy_query_patterns(s)).g1)
            /\ r = 5 =>
                  /\ intent_data.intent = "search_product"
                  /\ e.keys = {"product", "max_price"}
                  /\ e.product = Strip(PricePatternSearch(s).g1)
                  /\ e.max_price = ParseInt(PricePatternSearch(s).g2)
            /\ r = 6 =>
                  /\ intent_data.intent = "search_product"
                  /\ e.keys = {"product"}
                  /\ e.product = Strip(FirstMatch(search_product_patterns(s)).g1)
            /\ r = 7 =>
                  intent_data = IntentResult("search_product", user_query,
                                             ProductEntity(user_query))
            /\ Lower(user_query) = <<"t","h","a","n","k","s"," ","f","o","r"," ","t","h","e"," ","h","e","l","p">> =>
                  intent_data.intent = "thanks"

\* a query classified thanks that a search pattern matches as well
C3_Witness ==
    /\ op = "detect_intent"
    /\ intent_data.intent = "thanks"
    /\ ~greeting_patterns(Strip(Lower(user_query)))
    /\ FirstMatch(search_product_patterns(Strip(Lower(user_query)))).matched

\* product and topic names a query is about
ProductNames == { <<"s","m","a","r","t","p","h","o","n","e","s">>, <<"s","h","i","r","t","s">> }
TopicNames == { <<"d","e","l","i","v","e","r","y">> }

\* the query is `head` followed by a decimal numeral
NumeralAfter(query, head) ==
    /\ StartsWithAt(query, 1, head)
    /\ Len(query) > Len(head)
    /\ \A i \in (Len(head) + 1)..Len(query) : IsDigit(query[i])

\* C4: a query of the form "X under N", "X below N" or "X less than N" (N a
\* decimal integer) is classified search_product with entities.product = X
\* and entities.max_price = N; "smartphones under 15000" yields product
\* "smartphones" and max_price 15000.
C4_PriceConstrainedSearch ==
    op = "detect_intent" =>
        \A X \in ProductNames, w \in { <<"u","n","d","e","r">>, <<"b","e","l","o","w">>, <<"l","e","s","s"," ","t","h","a","n">> } :
            LET head == X \o <<" ">> \o w \o <<" ">>
            IN  NumeralAfter(user_query, head) =>
                    intent_data.entities =
                        PricedEntity(X, ParseInt(SubSeq(user_query, Len(head) + 1,
                                                        Len(user_query))))
                    /\ intent_data.intent = "search_product"

\* C5: every query of the form "X policy", "how do I X" or "tell me about X"
\* is classified policy_query with entities.topic = X; "delivery policy"
\* gives topic "delivery".
C5_PolicyQuery ==
    op = "detect_intent" =>
        \A X \in TopicNames :
            user_query \in {X \o <<" ","p","o","l","i","c","y">>, <<"h","o","w"," ","d","o"," ","I"," ">> \o X,
                            <<"t","e","l","l"," ","m","e"," ","a","b","o","u","t"," ">> \o X} =>
                /\ intent_data.intent = "policy_query"
                /\ intent_data.entities = TopicEntity(X)

\* C6: every query of the form "show me X", "find X", "best X" or "cheap X"
\* that carries no price constraint is classified search_product with
\* entities.product = X and no max_price.
C6_GeneralSearch ==
    op = "detect_intent" =>
        \A X \in ProductNames :
            user_query \in {<<"s","h","o","w"," ","m","e"," ">> \o X, <<"f","i","n","d"," ">> \o X, <<"b","e","s","t"," ">> \o X,
                            <<"c","h","e","a","p"," ">> \o X} =>
                /\ intent_data.intent = "search_product"
                /\ intent_data.entities = ProductEntity(X)

-----------------------------------------------------------------------------
(* Properties of the price filters *)

\* the integer a price string denotes: its first comma-grouped numeral, with
\* or without a currency prefix (None when it holds no digits)
NumeralOf(price) ==
    LET starts == {i \in 1..Len(price) : IsAmountChar(price[i])}
    IN  IF starts = {} THEN None
        ELSE LET b == Min(starts)
                 e == Max({k \in b..Len(price) :
                              \A j \in b..k : IsAmountChar(price[j])})
                 digits == SelectIdx(price, {j \in b..e : price[j] # ","}, 1)
             IN  IF digits = << >> THEN None ELSE ParseInt(digits)

\* the price of the record (or of the match's metadata) d is within mp
PriceWithin(d, mp) ==
    NumeralOf(GetPrice(d)) # None /\ NumeralOf(GetPrice(d)) <= mp

\* the price of the record d parses to an integer above mp
PriceAbove(d, mp) ==
    NumeralOf(GetPrice(d)) # None /\ NumeralOf(GetPrice(d)) > mp

\* C8: when max_price is set and the store returned at least one match,
\* retrieve_relevant_info keeps exactly the matches whose price metadata
\* parses to an integer <= max_price; if at least one survives it returns
\* the first top_k survivors in their original order, otherwise it continues
\* with the low-confidence check.
C8_VectorPriceFilter ==
    (/\ Retrieved
     /\ max_price # None
     /\ store_reply.status = "ok"
     /\ store_reply.matches # << >>) =>
        LET matches == store_reply.matches
            survivors ==
                SelectIdx(matches,
                          {i \in 1..Len(matches) :
                              PriceWithin(matches[i].metadata, max_price)}, 1)
        IN  IF survivors # << >> THEN result = Take(survivors, top_k)
            ELSE IF PreferKeyword(matches, keyword_results)
                THEN result = keyword_results
            ELSE result = Take(matches, top_k)

\* the call of _keyword_search the state records: direct, or the one
\* retrieve_relevant_info makes at line 1462
KeywordSearched == op = "_keyword_search" \/ Retrieved

\* C9: in _keyword_search with max_price given, a record whose price parses
\* to an integer greater than max_price is never in the result, while a
\* record whose price is missing or cannot be parsed is not excluded by the
\* price filter: it is scored like any other record.
C9_KeywordPriceFilter ==
    (KeywordSearched /\ max_price # None) =>
        LET kb == knowledge_base
            within == SelectIdx(kb, {i \in 1..Len(kb) :
                                       ~PriceAbove(kb[i], max_price)}, 1)
        IN  /\ \A i \in 1..Len(keyword_results) :
                   ~PriceAbove(keyword_results[i].metadata, max_price)
            /\ keyword_results = _keyword_search(within, RetrieveQuery, top_k, None)

\* the call fell through every earlier rule of lines 1464-1513: the store was
\* queried and answered with matches, the price filter returned no survivors
\* and the low-confidence rule did not prefer the keyword results
FellThrough ==
    /\ Retrieved
    /\ store_request # None
    /\ store_reply.status = "ok"
    /\ store_reply.matches # << >>
    /\ ~SurvivorsReturned
    /\ ~LowConfidenceCase

\* C11: on every path retrieve_relevant_info returns at most top_k matches:
\* when no earlier rule applies it returns the vector matches truncated to
\* top_k, and whenever the store returns no matches it returns the keyword
\* results (themselves at most top_k).
C11_AtMostTopK ==
    Retrieved =>
        /\ ~raised
        /\ Len(result) <= top_k
        /\ Len(keyword_results) <= top_k
        /\ FellThrough =>
               /\ Len(result) = Min({top_k, Len(store_reply.matches)})
               /\ \A i \in 1..Len(result) : result[i] = store_reply.matches[i]
        /\ (store_reply.status = "ok" /\ store_reply.matches = << >>) =>
               result = keyword_results

\* the store answered with more matches than top_k and the call fell through
\* to the truncated vector matches
C11_Witness ==
    /\ FellThrough
    /\ Len(store_reply.matches) > top_k
    /\ Len(result) = top_k

\* the messages generate_conversational_response can build (lines 258-284)
ChatMessages ==
    {"greeting", "thanks", "price_query", "policy_query", "search_product"}

\* score <= 0.01
AtMostThreshold(score) == score.num * 100 <= score.den

\* C12: if the retrieved list is empty, or every retrieved match has score
\* <= 0.01, generate_response returns the canned 'No specific products
\* found...' message; for every input chat returns a non-empty string and
\* never an empty result list rendering.
C12_CannedMessageNeverEmpty ==
    op = "chat" =>
        /\ ~raised
        /\ response.message \in ChatMessages
        /\ Retrieved =>
               /\ response.body.kind \in {"none", "list"}
               /\ response.body.kind = "list" => response.body.items # << >>
               /\ (\A i \in 1..Len(result) : AtMostThreshold(result[i].score)) =>
                      response.body.kind = "none"

\* chat retrieved matches that all score 0.01 and answered with the canned
\* message
C12_Witness ==
    /\ op = "chat"
    /\ Retrieved
    /\ result # << >>
    /\ \A i \in 1..Len(result) : AtMostThreshold(result[i].score)
    /\ response.body.kind = "none"

\* the step is a call of one of the retrieval operations
RetrievalStep == op' \in {"_keyword_search", "retrieve_relevant_info", "chat"}

\* the step repeats the previous call of _keyword_search
RepeatedKeywordSearch ==
    /\ op = "_keyword_search"
    /\ op' = "_keyword_search"
    /\ user_query' = user_query
    /\ top_k' = top_k
    /\ max_price' = max_price

\* C13: retrieval operations (_keyword_search, retrieve_relevant_info, chat)
\* leave the knowledge base, the fitted embedder, the vector dimension and the
\* index handle unchanged, so calling _keyword_search(q, k, max_price) twice on
\* an unmodified knowledge base yields identical results in identical order.
C13_RetrievalLeavesGenerationUnchanged ==
    [][RetrievalStep =>
          /\ knowledge_base' = knowledge_base
          /\ vocabulary' = vocabulary
          /\ vector_dimension' = vector_dimension
          /\ index' = index
          /\ RepeatedKeywordSearch => result' = result]_vars

\* a keyword search over several records returned more than one of them
C13_Witness ==
    /\ op = "_keyword_search"
    /\ Len(knowledge_base) >= 2
    /\ Len(result) >= 2

-----------------------------------------------------------------------------
(* SnapdealAPIClient.search_products *)

\* values of the JSON the Catalog Source answers with: strings and numbers
\* (a number is kept by its decimal digits, which is what str() gives)
PyStr(s) == [type |-> "str", value |-> s]
PyInt(digits) == [type |-> "int", value |-> digits]

\* the default '' of item.get
Empty == PyStr(EmptyStr)

\* bool(value): '' and 0 are false
PyTruthy(v) == IF v.type = "str" THEN v.value # EmptyStr ELSE v.value # <<"0">>

\* dict.get(key, default); a dict is a function from its keys
Get(item, key, default) == IF key \in DOMAIN item THEN item[key] ELSE default

\* lines 322-329: the record made of one item of data['products']
Product(item) ==
    [title |-> Get(item, "title", Get(item, "name", Empty)),
     price |-> Get(item, "price", Get(item, "salePrice", Empty)),
     original_price |-> Get(item, "mrp", Empty),
     discount |-> Get(item, "discount", Empty),
     rating |-> Get(item, "rating", Empty),
     url |-> Get(item, "url", Get(item, "link", Empty))]

\* a faulty variant: the outer except clause is missing
OnApiErrorRaises == Raise

\* lines 335-338: the outer except clause prints and falls to 'return []'
OnApiError == Return(<< >>)

\* search_products(query, max_results), given what requests.get met: the
\* request raised, or an answer with a status code and a body that is JSON
\* or not
search_products(met, limit) ==
    IF met.outcome = "network_error" THEN OnApiError
    ELSE IF met.status_code # 200 THEN Return(<< >>)
    ELSE IF ~met.is_json THEN Return(<< >>)
    ELSE IF met.data.type # "dict" \/ ~met.data.has_products THEN Return(<< >>)
    ELSE IF met.data.products.type # "list" THEN OnApiError
    ELSE LET chosen == Take(met.data.products.items, limit)
         IN  IF \E i \in 1..Len(chosen) : chosen[i].type # "dict"
             THEN OnApiError
             ELSE Return([i \in 1..Len(chosen) |-> Product(chosen[i].fields)])

-----------------------------------------------------------------------------
(* Inputs of the Catalog Source client *)

\* longest list of products in an answer
MaxProducts == 3

\* largest max_results tried (the build passes 10, line 401)
MaxResults == 3

JsonDict(fields) == [type |-> "dict", fields |-> fields]
JsonString == [type |-> "str"]

\* items an answer can hold: with title and price, with the alternative keys
\* and a numeric price, without price, without any key, and one that is not
\* an object
ApiItems ==
    { JsonDict(("title" :> PyStr(<<"N","o","k","i","a"," ","1","0","5">>)) @@ ("price" :> PyStr(<<"1",",","2","9","9">>))
                   @@ ("mrp" :> PyStr(<<"1",",","4","9","9">>))),
      JsonDict(("name" :> PyStr(<<"S","a","m","s","u","n","g"," ","G","u","r","u">>)) @@ ("salePrice" :> PyInt(<<"9","9","9">>))
                   @@ ("link" :> PyStr(<<"h","t","t","p",":","/","/","x">>))),
      JsonDict(("title" :> PyStr(<<"R","e","d","m","i"," ","1","2">>)) @@ ("rating" :> PyStr(<<"4",".","1">>))),
      JsonDict(<< >>),
      JsonString }

ProductLists == UNION {[1..n -> ApiItems] : n \in 0..MaxProducts}

Answer(code, is_json, data) ==
    [outcome |-> "answer", status_code |-> code, is_json |-> is_json, data |-> data]

Products(value) == [type |-> "dict", has_products |-> TRUE, products |-> value]

\* what requests.get can meet
ApiResponses ==
    {[outcome |-> "network_error"]}
        \cup {Answer(500, TRUE, Products([type |-> "list", items |-> << >>])),
              Answer(404, FALSE, [type |-> "none"]),
              Answer(200, FALSE, [type |-> "none"]),
              Answer(200, TRUE, [type |-> "list"]),
              Answer(200, TRUE, [type |-> "dict", has_products |-> FALSE]),
              Answer(200, TRUE, Products([type |-> "null"])),
              Answer(200, TRUE, Products([type |-> "dict"]))}
        \cup {Answer(200, TRUE, Products([type |-> "list", items |-> l])) :
                 l \in ProductLists}

\* a call of search_products is about to be made
InitCatalog ==
    /\ Unbuilt
    /\ op = "input"
    /\ user_query = EmptyStr
    /\ intent_data = NotRun
    /\ api_response \in ApiResponses
    /\ max_results \in 1..MaxResults

\* the call of search_products
SearchProducts ==
    /\ op = "input"
    /\ api_response # NoApiCall
    /\ op' = "search_products"
    /\ result' = search_products(api_response, max_results).value
    /\ raised' = search_products(api_response, max_results).raised
    /\ UNCHANGED <<knowledge_base, vocabulary, vector_dimension, index, user_query,
                   top_k, max_price, intent_data, calls, store_request,
                   store_reply, keyword_results, response>>
    /\ UNCHANGED build_vars
    /\ UNCHANGED enhanced_query

NextCatalog == SearchProducts

SpecCatalog == InitCatalog /\ [][NextCatalog]_vars

-----------------------------------------------------------------------------
(* The build: _prepare_knowledge_base, _setup_pinecone_index and            *)
(* _index_knowledge_base, run by __init__ (lines 370-376) and by the        *)
(* 'refresh' command of main (lines 1684-1690)                              *)

\* _get_store_info (lines 506-537); each text is cut to one part of the
\* source's
_get_store_info ==
    << Doc("info_about",
           <<"S","n","a","p","d","e","a","l"," ","i","s"," ","I","n","d","i","a","'","s"," ","l","e","a","d","i","n","g"," ","o","n","l","i","n","e"," ","s","h","o","p","p","i","n","g"," ","m","a","r","k","e","t","p","l","a","c","e">>,
           <<"i","n","f","o">>, {}, EmptyStr, EmptyStr, "str"),
       Doc("info_delivery",
           <<"d","e","l","i","v","e","r","y"," ","w","i","t","h","i","n"," ","2","-","7"," ","b","u","s","i","n","e","s","s"," ","d","a","y","s"," ","a","c","r","o","s","s"," ","I","n","d","i","a",".">>,
           <<"d","e","l","i","v","e","r","y">>, {}, EmptyStr, EmptyStr, "str"),
       Doc("info_return",
           <<"E","a","s","y"," ","r","e","t","u","r","n","s"," ","w","i","t","h","i","n"," ","7","-","3","0"," ","d","a","y","s">>,
           <<"r","e","t","u","r","n","_","p","o","l","i","c","y">>, {}, EmptyStr, EmptyStr, "str"),
       Doc("info_payment",
           <<"P","a","y","m","e","n","t"," ","o","p","t","i","o","n","s",":"," ","C","r","e","d","i","t","/","D","e","b","i","t"," ","C","a","r","d","s">>,
           <<"p","a","y","m","e","n","t">>, {}, EmptyStr, EmptyStr, "str") >>

\* _get_fallback_products (lines 539-1405); each text is cut to its first
\* word, which keeps the fitted vocabulary below max_features
_get_fallback_products ==
    << Doc("fb_mobile_1", <<"S","a","m","s","u","n","g">>, <<"s","m","a","r","t","p","h","o","n","e","s">>, {"product_name", "price"},
           <<"S","a","m","s","u","n","g"," ","G","a","l","a","x","y"," ","M","1","4"," ","5","G">>, <<"xE2","x201A","xB9","1","2",",","9","9","0">>, "str"),
       Doc("fb_mobile_2", <<"R","e","d","m","i">>, <<"s","m","a","r","t","p","h","o","n","e","s">>, {"product_name", "price"},
           <<"R","e","d","m","i"," ","1","2"," ","5","G">>, <<"xE2","x201A","xB9","1","0",",","9","9","9">>, "str"),
       Doc("fb_mobile_3", <<"R","e","a","l","m","e">>, <<"s","m","a","r","t","p","h","o","n","e","s">>, {"product_name", "price"},
           <<"R","e","a","l","m","e"," ","N","a","r","z","o"," ","6","0"," ","5","G">>, <<"xE2","x201A","xB9","1","7",",","9","9","9">>, "str"),
       Doc("fb_mobile_4", <<"S","a","m","s","u","n","g">>, <<"s","m","a","r","t","p","h","o","n","e","s">>, {"product_name", "price"},
           <<"S","a","m","s","u","n","g"," ","G","a","l","a","x","y"," ","A","1","4"," ","5","G">>, <<"xE2","x201A","xB9","1","4",",","4","9","0">>, "str"),
       Doc("fb_mobile_5", <<"O","n","e","P","l","u","s">>, <<"s","m","a","r","t","p","h","o","n","e","s">>, {"product_name", "price"},
           <<"O","n","e","P","l","u","s"," ","N","o","r","d"," ","C","E"," ","3"," ","L","i","t","e"," ","5","G">>, <<"xE2","x201A","xB9","1","7",",","4","9","9">>, "str"),
       Doc("fb_mobile_6", <<"i","Q","O","O">>, <<"s","m","a","r","t","p","h","o","n","e","s">>, {"product_name", "price"},
           <<"i","Q","O","O"," ","Z","9"," ","5","G">>, <<"xE2","x201A","xB9","1","8",",","9","9","9">>, "str"),
       Doc("fb_mobile_7", <<"M","o","t","o","r","o","l","a">>, <<"s","m","a","r","t","p","h","o","n","e","s">>, {"product_name", "price"},
           <<"M","o","t","o","r","o","l","a"," ","G","5","4"," ","5","G">>, <<"xE2","x201A","xB9","1","3",",","9","9","9">>, "str"),
       Doc("fb_mobile_8", <<"P","o","c","o">>, <<"s","m","a","r","t","p","h","o","n","e","s">>, {"product_name", "price"},
           <<"P","o","c","o"," ","X","6"," ","5","G">>, <<"xE2","x201A","xB9","1","9",",","9","9","9">>, "str"),
       Doc("fb_mobile_9", <<"V","i","v","o">>, <<"s","m","a","r","t","p","h","o","n","e","s">>, {"product_name", "price"},
           <<"V","i","v","o"," ","T","2","x"," ","5","G">>, <<"xE2","x201A","xB9","1","2",",","4","9","9">>, "str"),
       Doc("fb_mobile_10", <<"O","p","p","o">>, <<"s","m","a","r","t","p","h","o","n","e","s">>, {"product_name", "price"},
           <<"O","p","p","o"," ","A","7","8"," ","5","G">>, <<"xE2","x201A","xB9","1","6",",","9","9","9">>, "str"),
       Doc("fb_laptop_1", <<"H","P">>, <<"l","a","p","t","o","p","s">>, {"product_name", "price"},
           <<"H","P"," ","1","4","s"," ","L","a","p","t","o","p">>, <<"xE2","x201A","xB9","3","2",",","9","9","0">>, "str"),
       Doc("fb_laptop_2", <<"L","e","n","o","v","o">>, <<"l","a","p","t","o","p","s">>, {"product_name", "price"},
           <<"L","e","n","o","v","o"," ","I","d","e","a","P","a","d"," ","S","l","i","m"," ","3">>, <<"xE2","x201A","xB9","2","9",",","9","9","0">>, "str"),
       Doc("fb_laptop_3", <<"D","e","l","l">>, <<"l","a","p","t","o","p","s">>, {"product_name", "price"},
           <<"D","e","l","l"," ","V","o","s","t","r","o"," ","3","4","2","0">>, <<"xE2","x201A","xB9","3","8",",","9","9","0">>, "str"),
       Doc("fb_laptop_4", <<"A","S","U","S">>, <<"l","a","p","t","o","p","s">>, {"product_name", "price"},
           <<"A","S","U","S"," ","V","i","v","o","b","o","o","k"," ","1","5">>, <<"xE2","x201A","xB9","3","5",",","9","9","0">>, "str"),
       Doc("fb_laptop_5", <<"A","c","e","r">>, <<"l","a","p","t","o","p","s">>, {"product_name", "price"},
           <<"A","c","e","r"," ","A","s","p","i","r","e"," ","3">>, <<"xE2","x201A","xB9","3","1",",","4","9","9">>, "str"),
       Doc("fb_laptop_6", <<"H","P">>, <<"l","a","p","t","o","p","s">>, {"product_name", "price"},
           <<"H","P"," ","P","a","v","i","l","i","o","n"," ","1","5">>, <<"xE2","x201A","xB9","5","2",",","9","9","0">>, "str"),
       Doc("fb_laptop_7", <<"A","S","U","S">>, <<"l","a","p","t","o","p","s">>, {"product_name", "price"},
           <<"A","S","U","S"," ","T","U","F"," ","G","a","m","i","n","g"," ","F","1","5">>, <<"xE2","x201A","xB9","6","7",",","9","9","0">>, "str"),
       Doc("fb_laptop_8", <<"M","S","I">>, <<"l","a","p","t","o","p","s">>, {"product_name", "price"},
           <<"M","S","I"," ","G","F","6","3"," ","T","h","i","n">>, <<"xE2","x201A","xB9","5","4",",","9","9","0">>, "str"),
       Doc("fb_laptop_9", <<"L","e","n","o","v","o">>, <<"l","a","p","t","o","p","s">>, {"product_name", "price"},
           <<"L","e","n","o","v","o"," ","Y","o","g","a"," ","S","l","i","m"," ","7">>, <<"xE2","x201A","xB9","5","9",",","9","9","0">>, "str"),
       Doc("fb_laptop_10", <<"A","p","p","l","e">>, <<"l","a","p","t","o","p","s">>, {"product_name", "price"},
           <<"A","p","p","l","e"," ","M","a","c","B","o","o","k"," ","A","i","r"," ","M","1">>, <<"xE2","x201A","xB9","7","4",",","9","9","0">>, "str"),
       Doc("fb_headphone_1", <<"b","o","A","t">>, <<"h","e","a","d","p","h","o","n","e","s">>, {"product_name", "price"},
           <<"b","o","A","t"," ","R","o","c","k","e","r","z"," ","4","5","0">>, <<"xE2","x201A","xB9","1",",","2","9","9">>, "str"),
       Doc("fb_headphone_2", <<"N","o","i","s","e">>, <<"h","e","a","d","p","h","o","n","e","s">>, {"product_name", "price"},
           <<"N","o","i","s","e"," ","B","u","d","s"," ","V","S","1","0","4">>, <<"xE2","x201A","xB9","9","9","9">>, "str"),
       Doc("fb_headphone_3", <<"J","B","L">>, <<"h","e","a","d","p","h","o","n","e","s">>, {"product_name", "price"},
           <<"J","B","L"," ","T","u","n","e"," ","5","1","0","B","T">>, <<"xE2","x201A","xB9","2",",","9","9","9">>, "str"),
       Doc("fb_headphone_4", <<"S","o","n","y">>, <<"h","e","a","d","p","h","o","n","e","s">>, {"product_name", "price"},
           <<"S","o","n","y"," ","W","H","-","C","H","5","2","0">>, <<"xE2","x201A","xB9","4",",","4","9","0">>, "str"),
       Doc("fb_headphone_5", <<"O","n","e","P","l","u","s">>, <<"h","e","a","d","p","h","o","n","e","s">>, {"product_name", "price"},
           <<"O","n","e","P","l","u","s"," ","B","u","d","s"," ","Z","2">>, <<"xE2","x201A","xB9","3",",","4","9","9">>, "str"),
       Doc("fb_headphone_6", <<"R","e","a","l","m","e">>, <<"h","e","a","d","p","h","o","n","e","s">>, {"product_name", "price"},
           <<"R","e","a","l","m","e"," ","B","u","d","s"," ","A","i","r"," ","3">>, <<"xE2","x201A","xB9","2",",","7","9","9">>, "str"),
       Doc("fb_watch_1", <<"N","o","i","s","e">>, <<"s","m","a","r","t","w","a","t","c","h">>, {"product_name", "price"},
           <<"N","o","i","s","e"," ","C","o","l","o","r","F","i","t"," ","I","c","o","n"," ","2">>, <<"xE2","x201A","xB9","1",",","7","9","9">>, "str"),
       Doc("fb_watch_2", <<"F","i","r","e","-","B","o","l","t","t">>, <<"s","m","a","r","t","w","a","t","c","h">>, {"product_name", "price"},
           <<"F","i","r","e","-","B","o","l","t","t"," ","N","i","n","j","a"," ","C","a","l","l"," ","P","r","o"," ","P","l","u","s">>, <<"xE2","x201A","xB9","1",",","4","9","9">>, "str"),
       Doc("fb_watch_3", <<"b","o","A","t">>, <<"s","m","a","r","t","w","a","t","c","h">>, {"product_name", "price"},
           <<"b","o","A","t"," ","W","a","v","e"," ","C","a","l","l">>, <<"xE2","x201A","xB9","1",",","9","9","9">>, "str"),
       Doc("fb_watch_4", <<"A","m","a","z","f","i","t">>, <<"s","m","a","r","t","w","a","t","c","h">>, {"product_name", "price"},
           <<"A","m","a","z","f","i","t"," ","B","i","p"," ","3"," ","P","r","o">>, <<"xE2","x201A","xB9","3",",","4","9","9">>, "str"),
       Doc("fb_watch_5", <<"T","i","t","a","n">>, <<"s","m","a","r","t","w","a","t","c","h">>, {"product_name", "price"},
           <<"T","i","t","a","n"," ","S","m","a","r","t"," ","P","r","o">>, <<"xE2","x201A","xB9","5",",","4","9","5">>, "str"),
       Doc("fb_tv_1", <<"M","i">>, <<"t","e","l","e","v","i","s","i","o","n">>, {"product_name", "price"},
           <<"M","i"," ","S","m","a","r","t"," ","T","V"," ","5","A"," ","4","3","-","i","n","c","h">>, <<"xE2","x201A","xB9","2","3",",","9","9","9">>, "str"),
       Doc("fb_tv_2", <<"S","a","m","s","u","n","g">>, <<"t","e","l","e","v","i","s","i","o","n">>, {"product_name", "price"},
           <<"S","a","m","s","u","n","g"," ","C","r","y","s","t","a","l"," ","4","K"," ","U","H","D"," ","4","3","-","i","n","c","h">>, <<"xE2","x201A","xB9","2","8",",","9","9","0">>, "str"),
       Doc("fb_tv_3", <<"L","G">>, <<"t","e","l","e","v","i","s","i","o","n">>, {"product_name", "price"},
           <<"L","G"," ","3","2","-","i","n","c","h"," ","H","D"," ","R","e","a","d","y"," ","L","E","D"," ","T","V">>, <<"xE2","x201A","xB9","1","4",",","9","9","0">>, "str"),
       Doc("fb_tv_4", <<"S","o","n","y">>, <<"t","e","l","e","v","i","s","i","o","n">>, {"product_name", "price"},
           <<"S","o","n","y"," ","B","r","a","v","i","a"," ","5","5","-","i","n","c","h"," ","4","K"," ","U","H","D">>, <<"xE2","x201A","xB9","5","4",",","9","9","0">>, "str"),
       Doc("fb_tv_5", <<"O","n","e","P","l","u","s">>, <<"t","e","l","e","v","i","s","i","o","n">>, {"product_name", "price"},
           <<"O","n","e","P","l","u","s"," ","Y","1","S"," ","P","r","o"," ","5","0","-","i","n","c","h">>, <<"xE2","x201A","xB9","3","1",",","9","9","9">>, "str"),
       Doc("fb_home_1", <<"L","G">>, <<"h","o","m","e","_","a","p","p","l","i","a","n","c","e","s">>, {"product_name", "price"},
           <<"L","G"," ","7","k","g"," ","W","a","s","h","i","n","g"," ","M","a","c","h","i","n","e">>, <<"xE2","x201A","xB9","1","8",",","4","9","0">>, "str"),
       Doc("fb_home_2", <<"S","a","m","s","u","n","g">>, <<"h","o","m","e","_","a","p","p","l","i","a","n","c","e","s">>, {"product_name", "price"},
           <<"S","a","m","s","u","n","g"," ","2","5","3","L"," ","R","e","f","r","i","g","e","r","a","t","o","r">>, <<"xE2","x201A","xB9","2","3",",","9","9","0">>, "str"),
       Doc("fb_home_3", <<"W","h","i","r","l","p","o","o","l">>, <<"h","o","m","e","_","a","p","p","l","i","a","n","c","e","s">>, {"product_name", "price"},
           <<"W","h","i","r","l","p","o","o","l"," ","1",".","5"," ","T","o","n"," ","A","C">>, <<"xE2","x201A","xB9","2","9",",","9","9","0">>, "str"),
       Doc("fb_home_4", <<"I","F","B">>, <<"h","o","m","e","_","a","p","p","l","i","a","n","c","e","s">>, {"product_name", "price"},
           <<"I","F","B"," ","2","5","L"," ","C","o","n","v","e","c","t","i","o","n"," ","M","i","c","r","o","w","a","v","e">>, <<"xE2","x201A","xB9","1","2",",","9","9","0">>, "str"),
       Doc("fb_home_5", <<"P","h","i","l","i","p","s">>, <<"h","o","m","e","_","a","p","p","l","i","a","n","c","e","s">>, {"product_name", "price"},
           <<"P","h","i","l","i","p","s"," ","A","i","r"," ","F","r","y","e","r">>, <<"xE2","x201A","xB9","7",",","9","9","9">>, "str"),
       Doc("fb_shoes_1", <<"N","i","k","e">>, <<"s","h","o","e","s">>, {"product_name", "price"},
           <<"N","i","k","e"," ","R","e","v","o","l","u","t","i","o","n"," ","6">>, <<"xE2","x201A","xB9","3",",","2","9","5">>, "str"),
       Doc("fb_shoes_2", <<"A","d","i","d","a","s">>, <<"s","h","o","e","s">>, {"product_name", "price"},
           <<"A","d","i","d","a","s"," ","U","l","t","r","a","b","o","o","s","t"," ","2","2">>, <<"xE2","x201A","xB9","8",",","9","9","9">>, "str"),
       Doc("fb_shoes_3", <<"P","u","m","a">>, <<"s","h","o","e","s">>, {"product_name", "price"},
           <<"P","u","m","a"," ","S","o","f","t","r","i","d","e"," ","E","n","z","o">>, <<"xE2","x201A","xB9","2",",","7","9","9">>, "str"),
       Doc("fb_shoes_4", <<"R","e","e","b","o","k">>, <<"s","h","o","e","s">>, {"product_name", "price"},
           <<"R","e","e","b","o","k"," ","E","n","e","r","g","e","n"," ","P","l","u","s">>, <<"xE2","x201A","xB9","2",",","1","9","9">>, "str"),
       Doc("fb_shoes_5", <<"C","a","m","p","u","s">>, <<"s","h","o","e","s">>, {"product_name", "price"},
           <<"C","a","m","p","u","s"," ","N","o","r","t","h"," ","P","l","u","s">>, <<"xE2","x201A","xB9","9","9","9">>, "str"),
       Doc("fb_fashion_men_1", <<"L","e","v","i","'","s">>, <<"m","e","n","s","_","f","a","s","h","i","o","n">>, {"product_name", "price"},
           <<"L","e","v","i","'","s"," ","M","e","n"," ","S","l","i","m"," ","F","i","t"," ","J","e","a","n","s">>, <<"xE2","x201A","xB9","1",",","7","9","9">>, "str"),
       Doc("fb_fashion_men_2", <<"A","l","l","e","n">>, <<"m","e","n","s","_","f","a","s","h","i","o","n">>, {"product_name", "price"},
           <<"A","l","l","e","n"," ","S","o","l","l","y"," ","M","e","n"," ","F","o","r","m","a","l"," ","S","h","i","r","t">>, <<"xE2","x201A","xB9","8","9","9">>, "str"),
       Doc("fb_fashion_men_3", <<"P","e","t","e","r">>, <<"m","e","n","s","_","f","a","s","h","i","o","n">>, {"product_name", "price"},
           <<"P","e","t","e","r"," ","E","n","g","l","a","n","d"," ","B","l","a","z","e","r">>, <<"xE2","x201A","xB9","2",",","4","9","9">>, "str"),
       Doc("fb_fashion_men_4", <<"U","S">>, <<"m","e","n","s","_","f","a","s","h","i","o","n">>, {"product_name", "price"},
           <<"U","S"," ","P","o","l","o"," ","T","-","S","h","i","r","t">>, <<"xE2","x201A","xB9","6","9","9">>, "str"),
       Doc("fb_fashion_men_5", <<"R","a","y","m","o","n","d">>, <<"m","e","n","s","_","f","a","s","h","i","o","n">>, {"product_name", "price"},
           <<"R","a","y","m","o","n","d"," ","M","e","n"," ","T","r","o","u","s","e","r","s">>, <<"xE2","x201A","xB9","1",",","2","9","9">>, "str"),
       Doc("fb_fashion_women_1", <<"W">>, <<"w","o","m","e","n","s","_","f","a","s","h","i","o","n">>, {"product_name", "price"},
           <<"W"," ","W","o","m","e","n"," ","K","u","r","t","a"," ","S","e","t">>, <<"xE2","x201A","xB9","8","9","9">>, "str"),
       Doc("fb_fashion_women_2", <<"L","i","b","a","s">>, <<"w","o","m","e","n","s","_","f","a","s","h","i","o","n">>, {"product_name", "price"},
           <<"L","i","b","a","s"," ","E","t","h","n","i","c"," ","D","r","e","s","s">>, <<"xE2","x201A","xB9","1",",","1","9","9">>, "str"),
       Doc("fb_fashion_women_3", <<"B","i","b","a">>, <<"w","o","m","e","n","s","_","f","a","s","h","i","o","n">>, {"product_name", "price"},
           <<"B","i","b","a"," ","W","o","m","e","n"," ","S","a","l","w","a","r"," ","S","u","i","t">>, <<"xE2","x201A","xB9","1",",","7","9","9">>, "str"),
       Doc("fb_fashion_women_4", <<"T","o","k","y","o">>, <<"w","o","m","e","n","s","_","f","a","s","h","i","o","n">>, {"product_name", "price"},
           <<"T","o","k","y","o"," ","T","a","l","k","i","e","s"," ","W","e","s","t","e","r","n"," ","D","r","e","s","s">>, <<"xE2","x201A","xB9","6","9","9">>, "str"),
       Doc("fb_fashion_women_5", <<"Z","a","r","a">>, <<"w","o","m","e","n","s","_","f","a","s","h","i","o","n">>, {"product_name", "price"},
           <<"Z","a","r","a"," ","W","o","m","e","n"," ","J","e","a","n","s">>, <<"xE2","x201A","xB9","1",",","4","9","9">>, "str"),
       Doc("fb_tablet_1", <<"S","a","m","s","u","n","g">>, <<"t","a","b","l","e","t">>, {"product_name", "price"},
           <<"S","a","m","s","u","n","g"," ","G","a","l","a","x","y"," ","T","a","b"," ","A","8">>, <<"xE2","x201A","xB9","1","4",",","9","9","9">>, "str"),
       Doc("fb_tablet_2", <<"L","e","n","o","v","o">>, <<"t","a","b","l","e","t">>, {"product_name", "price"},
           <<"L","e","n","o","v","o"," ","T","a","b"," ","M","1","0"," ","P","l","u","s">>, <<"xE2","x201A","xB9","1","2",",","9","9","9">>, "str"),
       Doc("fb_tablet_3", <<"A","p","p","l","e">>, <<"t","a","b","l","e","t">>, {"product_name", "price"},
           <<"A","p","p","l","e"," ","i","P","a","d"," ","9","t","h"," ","G","e","n">>, <<"xE2","x201A","xB9","2","9",",","9","9","0">>, "str"),
       Doc("fb_camera_1", <<"C","a","n","o","n">>, <<"c","a","m","e","r","a">>, {"product_name", "price"},
           <<"C","a","n","o","n"," ","E","O","S"," ","1","5","0","0","D"," ","D","S","L","R">>, <<"xE2","x201A","xB9","3","1",",","9","9","0">>, "str"),
       Doc("fb_camera_2", <<"N","i","k","o","n">>, <<"c","a","m","e","r","a">>, {"product_name", "price"},
           <<"N","i","k","o","n"," ","D","3","5","0","0"," ","D","S","L","R">>, <<"xE2","x201A","xB9","3","3",",","9","5","0">>, "str"),
       Doc("fb_camera_3", <<"G","o","P","r","o">>, <<"c","a","m","e","r","a">>, {"product_name", "price"},
           <<"G","o","P","r","o"," ","H","e","r","o"," ","1","1"," ","B","l","a","c","k">>, <<"xE2","x201A","xB9","3","9",",","9","9","0">>, "str"),
       Doc("fb_kitchen_1", <<"P","r","e","s","t","i","g","e">>, <<"k","i","t","c","h","e","n">>, {"product_name", "price"},
           <<"P","r","e","s","t","i","g","e"," ","I","n","d","u","c","t","i","o","n"," ","C","o","o","k","t","o","p">>, <<"xE2","x201A","xB9","1",",","9","9","9">>, "str"),
       Doc("fb_kitchen_2", <<"P","h","i","l","i","p","s">>, <<"k","i","t","c","h","e","n">>, {"product_name", "price"},
           <<"P","h","i","l","i","p","s"," ","M","i","x","e","r"," ","G","r","i","n","d","e","r">>, <<"xE2","x201A","xB9","3",",","4","9","9">>, "str"),
       Doc("fb_kitchen_3", <<"K","e","n","t">>, <<"k","i","t","c","h","e","n">>, {"product_name", "price"},
           <<"K","e","n","t"," ","R","O"," ","W","a","t","e","r"," ","P","u","r","i","f","i","e","r">>, <<"xE2","x201A","xB9","1","2",",","9","9","9">>, "str"),
       Doc("fb_kitchen_4", <<"W","o","n","d","e","r","c","h","e","f">>, <<"k","i","t","c","h","e","n">>, {"product_name", "price"},
           <<"W","o","n","d","e","r","c","h","e","f"," ","E","l","e","c","t","r","i","c"," ","K","e","t","t","l","e">>, <<"xE2","x201A","xB9","8","9","9">>, "str"),
       Doc("fb_toys_1", <<"H","o","t">>, <<"t","o","y","s">>, {"product_name", "price"},
           <<"H","o","t"," ","W","h","e","e","l","s"," ","T","r","a","c","k"," ","S","e","t">>, <<"xE2","x201A","xB9","1",",","2","9","9">>, "str"),
       Doc("fb_toys_2", <<"L","e","g","o">>, <<"t","o","y","s">>, {"product_name", "price"},
           <<"L","e","g","o"," ","C","i","t","y"," ","P","o","l","i","c","e"," ","S","t","a","t","i","o","n">>, <<"xE2","x201A","xB9","3",",","9","9","9">>, "str"),
       Doc("fb_toys_3", <<"M","o","n","o","p","o","l","y">>, <<"t","o","y","s">>, {"product_name", "price"},
           <<"M","o","n","o","p","o","l","y"," ","B","o","a","r","d"," ","G","a","m","e">>, <<"xE2","x201A","xB9","7","9","9">>, "str"),
       Doc("fb_books_1", <<"A","t","o","m","i","c">>, <<"b","o","o","k","s">>, {"product_name", "price"},
           <<"A","t","o","m","i","c"," ","H","a","b","i","t","s">>, <<"xE2","x201A","xB9","3","9","9">>, "str"),
       Doc("fb_books_2", <<"T","h","e">>, <<"b","o","o","k","s">>, {"product_name", "price"},
           <<"T","h","e"," ","P","s","y","c","h","o","l","o","g","y"," ","o","f"," ","M","o","n","e","y">>, <<"xE2","x201A","xB9","2","9","9">>, "str"),
       Doc("fb_books_3", <<"T","h","i","n","k">>, <<"b","o","o","k","s">>, {"product_name", "price"},
           <<"T","h","i","n","k"," ","L","i","k","e"," ","a"," ","M","o","n","k">>, <<"xE2","x201A","xB9","3","4","9">>, "str"),
       Doc("fb_sports_1", <<"N","i","v","i","a">>, <<"s","p","o","r","t","s">>, {"product_name", "price"},
           <<"N","i","v","i","a"," ","S","t","o","r","m"," ","F","o","o","t","b","a","l","l">>, <<"xE2","x201A","xB9","5","9","9">>, "str"),
       Doc("fb_sports_2", <<"C","o","s","c","o">>, <<"s","p","o","r","t","s">>, {"product_name", "price"},
           <<"C","o","s","c","o"," ","Y","o","g","a"," ","M","a","t">>, <<"xE2","x201A","xB9","4","9","9">>, "str"),
       Doc("fb_sports_3", <<"S","t","r","a","u","s","s">>, <<"s","p","o","r","t","s">>, {"product_name", "price"},
           <<"S","t","r","a","u","s","s"," ","A","d","j","u","s","t","a","b","l","e"," ","D","u","m","b","b","e","l","l","s">>, <<"xE2","x201A","xB9","1",",","2","9","9">>, "str"),
       Doc("fb_sports_4", <<"Y","o","n","e","x">>, <<"s","p","o","r","t","s">>, {"product_name", "price"},
           <<"Y","o","n","e","x"," ","B","a","d","m","i","n","t","o","n"," ","R","a","c","k","e","t">>, <<"xE2","x201A","xB9","8","9","9">>, "str"),
       Doc("fb_beauty_1", <<"L","a","k","m","e">>, <<"b","e","a","u","t","y">>, {"product_name", "price"},
           <<"L","a","k","m","e"," ","E","y","e","c","o","n","i","c"," ","K","a","j","a","l">>, <<"xE2","x201A","xB9","1","4","9">>, "str"),
       Doc("fb_beauty_2", <<"M","a","y","b","e","l","l","i","n","e">>, <<"b","e","a","u","t","y">>, {"product_name", "price"},
           <<"M","a","y","b","e","l","l","i","n","e"," ","F","i","t"," ","M","e"," ","F","o","u","n","d","a","t","i","o","n">>, <<"xE2","x201A","xB9","3","9","9">>, "str"),
       Doc("fb_beauty_3", <<"P","h","i","l","i","p","s">>, <<"b","e","a","u","t","y">>, {"product_name", "price"},
           <<"P","h","i","l","i","p","s"," ","T","r","i","m","m","e","r"," ","B","T","3","2","2","1">>, <<"xE2","x201A","xB9","1",",","3","9","9">>, "str"),
       Doc("fb_beauty_4", <<"D","o","v","e">>, <<"b","e","a","u","t","y">>, {"product_name", "price"},
           <<"D","o","v","e"," ","H","a","i","r"," ","F","a","l","l"," ","R","e","s","c","u","e"," ","S","h","a","m","p","o","o">>, <<"xE2","x201A","xB9","2","9","9">>, "str"),
       Doc("fb_bags_1", <<"S","k","y","b","a","g","s">>, <<"b","a","g","s">>, {"product_name", "price"},
           <<"S","k","y","b","a","g","s"," ","B","a","c","k","p","a","c","k"," ","3","0","L">>, <<"xE2","x201A","xB9","9","9","9">>, "str"),
       Doc("fb_bags_2", <<"A","m","e","r","i","c","a","n">>, <<"b","a","g","s">>, {"product_name", "price"},
           <<"A","m","e","r","i","c","a","n"," ","T","o","u","r","i","s","t","e","r"," ","T","r","o","l","l","e","y">>, <<"xE2","x201A","xB9","3",",","4","9","9">>, "str"),
       Doc("fb_bags_3", <<"W","i","l","d","c","r","a","f","t">>, <<"b","a","g","s">>, {"product_name", "price"},
           <<"W","i","l","d","c","r","a","f","t"," ","D","u","f","f","l","e"," ","B","a","g">>, <<"xE2","x201A","xB9","1",",","7","9","9">>, "str") >>

\* lines 386-399: search_queries[:4], each with the text of its name
search_queries ==
    << [name |-> "smartphones", text |-> <<"s","m","a","r","t","p","h","o","n","e","s">>],
       [name |-> "laptops", text |-> <<"l","a","p","t","o","p","s">>],
       [name |-> "mens shoes", text |-> <<"m","e","n","s"," ","s","h","o","e","s">>],
       [name |-> "womens kurti", text |-> <<"w","o","m","e","n","s"," ","k","u","r","t","i">>] >>

\* line 401: max_results of the build's calls
ApiMaxResults == 10

\* line 443: the fallback catalogue is added below this many records
FallbackBelow == 15

\* line 1445: batch_size
batch_size == 100

\* lines 487 and 496-497: the readiness loop's limit and step
max_wait == 60
poll_interval == 2

\* a faulty variant: the index is left out of the id
ProductIdOfQuery(query, idx) == "product_" \o query.name

\* line 423: f'product_{query}_{idx}'
ProductId(query, idx) == "product_" \o query.name \o "_" \o ToString(idx)

\* lines 410-419: the text of a live product
ProductText(product) ==
    product.title.value \o <<" ","-"," ","P","r","i","c","e",":"," ">> \o product.price.value
        \o (IF PyTruthy(product.original_price)
            THEN <<" ","(","M","R","P",":"," ">> \o product.original_price.value \o <<")">> ELSE EmptyStr)
        \o (IF PyTruthy(product.discount)
            THEN <<" ">> \o product.discount.value ELSE EmptyStr)
        \o (IF PyTruthy(product.rating)
            THEN <<"."," ","R","a","t","i","n","g",":"," ">> \o product.rating.value ELSE EmptyStr)

\* lines 422-432: the record appended for a live product
LiveRecord(query, idx, product) ==
    Doc(ProductId(query, idx), ProductText(product), query.text,
        {"product_name", "price"}, product.title.value, product.price.value,
        product.price.type)

\* lines 406-435: the records of one query's products; a product without
\* title or price is skipped (line 408)
LiveRecords(query, products) ==
    SelectIdx([i \in 1..Len(products) |-> LiveRecord(query, i - 1, products[i])],
              {i \in 1..Len(products) :
                  PyTruthy(products[i].title) /\ PyTruthy(products[i].price)}, 1)

\* lines 402-438: the loop over the search queries, from query i on
RECURSIVE FetchFrom(_, _, _)
FetchFrom(kb, responses, i) ==
    IF i > Len(search_queries) THEN kb
    ELSE FetchFrom(kb \o LiveRecords(search_queries[i],
                                     search_products(responses[i], ApiMaxResults).value),
                   responses, i + 1)

\* a faulty variant: line 384 is missing and the records are appended to the
\* old knowledge base
KeptKnowledgeBase(kb) == kb

\* line 384: self.knowledge_base = []
ClearedKnowledgeBase(kb) == << >>

\* a faulty variant: the size is tested before the store information is
\* added, so it counts the live products only
FallbackBeforeStoreInfo(kb, responses) ==
    LET live == FetchFrom(ClearedKnowledgeBase(kb), responses, 1)
    IN  IF Len(live) < FallbackBelow
        THEN live \o _get_store_info \o _get_fallback_products
        ELSE live \o _get_store_info

\* lines 384-445: the knowledge base _prepare_knowledge_base collects
_prepare_knowledge_base(kb, responses) ==
    LET live == FetchFrom(ClearedKnowledgeBase(kb), responses, 1)
        with_info == live \o _get_store_info
    IN  IF Len(with_info) < FallbackBelow
        THEN with_info \o _get_fallback_products
        ELSE with_info

\* the ids of the records, in order
Ids(kb) == [i \in 1..Len(kb) |-> kb[i].id]

\* a faulty variant: the index is created with max_features dimensions
CreateDimensionMaxFeatures(dim) == max_features

\* line 478: dimension=self.vector_dimension
CreateDimension(dim) == dim

\* a faulty variant: the old index is never deleted
ExistingIndexIgnored(service) == FALSE

\* line 470: self.index_name in existing_indexes
ExistingIndex(service) == service.exists

\* a faulty variant: a failing refresh is caught in the loop, as a failing
\* chat is (lines 1695-1700), and main goes on to the next input
OnBuildErrorContinue(entry) == IF entry = "refresh" THEN "prompt" ELSE "exited"

\* lines 1702-1708: an exception of the constructor or of a refresh step
\* reaches the except clause around the whole of main, which ends it
OnBuildError(entry) == "exited"

\* lines 1412-1420: the length of a record's embedding: the transform's, or
\* that of the random vector that replaces an all-zero embedding
EmbeddingLength(vocab, dim, text) ==
    IF ZeroVector(Transform(vocab, text)) THEN dim ELSE Cardinality(vocab)

\* lines 1414-1442: the vectors of the knowledge base
Vectors(kb, vocab, dim) ==
    [i \in 1..Len(kb) |-> Vector(kb[i], EmbeddingLength(vocab, dim, kb[i].text))]

-----------------------------------------------------------------------------
(* Inputs of the build *)

ErrorAnswer == [outcome |-> "network_error"]
ListAnswer(l) == Answer(200, TRUE, Products([type |-> "list", items |-> l]))

NokiaItem ==
    JsonDict(("title" :> PyStr(<<"N","o","k","i","a"," ","1","0","5">>)) @@ ("price" :> PyStr(<<"1",",","2","9","9">>))
                 @@ ("mrp" :> PyStr(<<"1",",","4","9","9">>)))
GuruItem ==
    JsonDict(("name" :> PyStr(<<"S","a","m","s","u","n","g"," ","G","u","r","u">>)) @@ ("salePrice" :> PyInt(<<"9","9","9">>))
                 @@ ("link" :> PyStr(<<"h","t","t","p",":","/","/","x">>)))
UnpricedItem ==
    JsonDict(("title" :> PyStr(<<"R","e","d","m","i"," ","1","2">>)) @@ ("rating" :> PyStr(<<"4",".","1">>)))

\* the Catalog Source's answers to the four queries of a build: all calls
\* fail; malformed answers and two products; a product skipped before one
\* that is kept; ten, eleven and twelve products
Catalogs ==
    { << ErrorAnswer, ErrorAnswer, ErrorAnswer, ErrorAnswer >>,
      << ListAnswer(<< NokiaItem, GuruItem >>), Answer(500, FALSE, [type |-> "none"]),
         Answer(200, FALSE, [type |-> "none"]), Answer(200, TRUE, [type |-> "list"]) >>,
      << ListAnswer(<< UnpricedItem, NokiaItem >>), ListAnswer(<< GuruItem >>),
         ListAnswer(<< >>), ListAnswer(<< JsonString >>) >>,
      << ListAnswer(<< NokiaItem, GuruItem, NokiaItem >>),
         ListAnswer(<< NokiaItem, GuruItem, NokiaItem >>),
         ListAnswer(<< NokiaItem, GuruItem >>), ListAnswer(<< NokiaItem, GuruItem >>) >>,
      << ListAnswer(<< NokiaItem, GuruItem, NokiaItem >>),
         ListAnswer(<< NokiaItem, GuruItem, NokiaItem >>),
         ListAnswer(<< NokiaItem, GuruItem, NokiaItem >>), ListAnswer(<< NokiaItem, GuruItem >>) >>,
      << ListAnswer(<< NokiaItem, GuruItem, NokiaItem >>),
         ListAnswer(<< NokiaItem, GuruItem, NokiaItem >>),
         ListAnswer(<< NokiaItem, GuruItem, NokiaItem >>),
         ListAnswer(<< NokiaItem, GuruItem, NokiaItem >>) >> }

\* what the service holds under index_name when main starts: nothing, or an
\* index an earlier run left
OldVector == Vector(_get_store_info[1], max_features)
InitialIndexes ==
    { [service |-> NoIndex, vectors |-> {}],
      [service |-> [exists |-> TRUE, dimension |-> max_features, ready |-> TRUE],
       vectors |-> {OldVector}] }

\* the queries served between builds
ServeQueries == { <<"s","a","m","s","u","n","g">>, <<"d","e","l","i","v","e","r","y"," ","p","o","l","i","c","y">> }

\* the answers of the store considered between builds: an error, no match,
\* or one match, of the first or the last record
ServeReplies(idx, kb, queried) ==
    IF ~queried THEN {NoReply}
    ELSE {[status |-> "error", matches |-> << >>], [status |-> "ok", matches |-> << >>]}
            \cup {[status |-> "ok",
                   matches |-> << [id |-> v.id, score |-> sc, metadata |-> v.metadata] >>] :
                     v \in {w \in idx : w.id \in {kb[1].id, kb[Len(kb)].id}},
                     sc \in VectorScores}

-----------------------------------------------------------------------------
(* main: construction, the prompt, refresh *)

\* the arguments and results of the chatbot's calls
call_vars == <<op, user_query, top_k, max_price, intent_data, calls,
               store_request, store_reply, keyword_results, result, raised,
               response, enhanced_query, api_response, max_results>>

\* main has started (line 1641) and the service holds what earlier runs left
InitBuild ==
    /\ Ready
    /\ knowledge_base = << >>
    /\ vocabulary = {}
    /\ vector_dimension = None
    /\ \E old \in InitialIndexes :
          /\ pinecone = old.service
          /\ index = old.vectors
    /\ pc = "start"
    /\ steps = << >>
    /\ catalog = NoCatalog
    /\ waited = 0
    /\ sent = 0
    /\ previous = NoGeneration
    /\ api_response = NoApiCall
    /\ max_results = 0

\* lines 1659 and 342-364: main constructs the chatbot, whose fields start
\* empty
Construct ==
    /\ pc = "start"
    /\ pc' = "prepare"
    /\ steps' = << "__init__" >>
    /\ knowledge_base' = << >>
    /\ vector_dimension' = None
    /\ UNCHANGED <<vocabulary, index, catalog, pinecone, waited, sent, previous>>
    /\ UNCHANGED call_vars

\* lines 1684-1690: the input 'refresh' starts a build; the generation it
\* replaces is remembered
Refresh ==
    /\ pc = "prompt"
    /\ op = "ready"
    /\ pc' = "prepare"
    /\ steps' = << "refresh" >>
    /\ previous' = [catalog |-> catalog, ids |-> Ids(knowledge_base),
                    dimension |-> vector_dimension]
    /\ UNCHANGED <<knowledge_base, vocabulary, vector_dimension, index, catalog,
                   pinecone, waited, sent>>
    /\ UNCHANGED call_vars

\* an exception leaves the build step
BuildFails ==
    /\ pc' = OnBuildError(steps[1])
    /\ steps' = Append(steps, "raised")

\* the step's name is added to the steps, once
Stepped(name) == IF steps[Len(steps)] = name THEN steps ELSE Append(steps, name)

\* _prepare_knowledge_base (lines 378-463): the records are collected, the
\* vectorizer is fitted and the dimension is taken from it; an empty
\* knowledge base raises ValueError (line 461)
PrepareKnowledgeBase ==
    /\ pc = "prepare"
    /\ \E responses \in Catalogs :
         \E kb \in {_prepare_knowledge_base(knowledge_base, responses)} :
           /\ catalog' = responses
           /\ knowledge_base' = kb
           /\ IF kb # << >>
              THEN /\ vocabulary' = FitVocabulary(kb)
                   /\ vector_dimension' = Cardinality(vocabulary')
                   /\ pc' = "list"
                   /\ steps' = Append(steps, "_prepare_knowledge_base")
              ELSE /\ BuildFails
                   /\ UNCHANGED <<vocabulary, vector_dimension>>
    /\ UNCHANGED <<index, pinecone, waited, sent, previous>>
    /\ UNCHANGED call_vars

\* lines 468-470: list_indexes, which can raise
ListIndexes ==
    /\ pc = "list"
    /\ \/ BuildFails
       \/ /\ pc' = IF ExistingIndex(pinecone) THEN "delete" ELSE "create"
          /\ steps' = Append(steps, "list_indexes")
    /\ UNCHANGED <<knowledge_base, vocabulary, vector_dimension, index, catalog,
                   pinecone, waited, sent, previous>>
    /\ UNCHANGED call_vars

\* lines 470-473: delete_index, which can raise
DeleteIndex ==
    /\ pc = "delete"
    /\ \/ /\ BuildFails
          /\ UNCHANGED <<pinecone, index>>
       \/ /\ pinecone' = NoIndex
          /\ index' = {}
          /\ pc' = "create"
          /\ steps' = Append(steps, "delete_index")
    /\ UNCHANGED <<knowledge_base, vocabulary, vector_dimension, catalog, waited,
                   sent, previous>>
    /\ UNCHANGED call_vars

\* lines 475-488: create_index, which can raise and does when the name is
\* taken; the new index is empty and not yet ready
CreateIndex ==
    /\ pc = "create"
    /\ \/ /\ BuildFails
          /\ UNCHANGED <<pinecone, index, waited>>
       \/ /\ ~pinecone.exists
          /\ pinecone' = [exists |-> TRUE, ready |-> FALSE,
                          dimension |-> CreateDimension(vector_dimension)]
          /\ index' = {}
          /\ waited' = 0
          /\ pc' = "wait"
          /\ steps' = Append(steps, "create_index")
    /\ UNCHANGED <<knowledge_base, vocabulary, vector_dimension, catalog, sent,
                   previous>>
    /\ UNCHANGED call_vars

\* a faulty variant: an exception of describe_index is not caught in the loop
OnDescribeErrorRaises == "raise"

\* lines 494-495: `except: pass`, the loop goes on to sleep and count
OnDescribeError == "pass"

\* lines 489-497: one turn of the readiness loop; describe_index reports the
\* index ready, or not, or raises (which the loop ignores)
DescribeIndex ==
    /\ pc = "wait"
    /\ \E answer \in {"ready", "not_ready", "error"} :
          IF answer = "ready"
          THEN /\ pinecone' = [pinecone EXCEPT !.ready = TRUE]
               /\ pc' = "handle"
               /\ steps' = Stepped("describe_index")
               /\ UNCHANGED waited
          ELSE IF answer = "error" /\ OnDescribeError = "raise"
          THEN /\ BuildFails
               /\ waited' = 0
               /\ UNCHANGED pinecone
          ELSE /\ waited' = waited + poll_interval
               /\ pc' = IF waited' < max_wait THEN "wait" ELSE "handle"
               /\ steps' = Stepped("describe_index")
               /\ UNCHANGED pinecone
    /\ UNCHANGED <<knowledge_base, vocabulary, vector_dimension, index, catalog,
                   sent, previous>>
    /\ UNCHANGED call_vars

\* line 499: self.index = self.pc.Index(self.index_name), which can raise;
\* _setup_pinecone_index is left and its local 'waited' with it
OpenIndex ==
    /\ pc = "handle"
    /\ \/ /\ BuildFails
          /\ UNCHANGED sent
       \/ /\ pc' = "index"
          /\ sent' = 0
          /\ steps' = Append(steps, "Index")
    /\ waited' = 0
    /\ UNCHANGED <<knowledge_base, vocabulary, vector_dimension, index, catalog,
                   pinecone, previous>>
    /\ UNCHANGED call_vars

\* lines 1407-1450: one batch of the upsert loop, which can raise; a vector
\* replaces the one the index holds under the same id; after the last batch
\* the build is over and main prompts for input
UpsertBatch ==
    /\ pc = "index"
    /\ sent < Len(knowledge_base)
    /\ \/ /\ BuildFails
          /\ UNCHANGED <<index, sent>>
       \/ \E vectors \in {Vectors(knowledge_base, vocabulary, vector_dimension)},
             upto \in {Min({sent + batch_size, Len(knowledge_base)})} :
            /\ index' = {v \in index : \A i \in (sent + 1)..upto : v.id # vectors[i].id}
                            \cup {vectors[i] : i \in (sent + 1)..upto}
            /\ sent' = upto
            /\ pc' = IF upto < Len(knowledge_base) THEN "index" ELSE "prompt"
            /\ steps' = Stepped("upsert")
    /\ UNCHANGED <<knowledge_base, vocabulary, vector_dimension, catalog, pinecone,
                   waited, previous>>
    /\ UNCHANGED call_vars

\* lines 1695-1697: main passes a greeting or thanks to chat
ServeDirect ==
    /\ pc = "prompt"
    /\ ChatDirect

\* lines 1695-1697: main passes a query to chat, which retrieves
ServeRetrieve ==
    /\ pc = "prompt"
    /\ op = "ready"
    /\ \E q \in ServeQueries :
         \E intent \in {detect_intent(q)} :
           \E eq \in {ChatQuery(intent)}, mp \in {ChatMaxPrice(intent)} :
             \E kw \in {_keyword_search(knowledge_base, eq, ChatTopK, mp)},
                queried \in {StoreQueried(vocabulary, eq)} :
               \E reply \in ServeReplies(index, knowledge_base, queried) :
                 \E got \in {MergePolicy(kw, queried, ChatTopK, mp, reply)} :
                   /\ intent.intent \notin DirectIntents
                   /\ op' = "chat"
                   /\ user_query' = q
                   /\ top_k' = ChatTopK
                   /\ max_price' = mp
                   /\ intent_data' = intent
                   /\ calls' = {"detect_intent", "enhance_query",
                                "retrieve_relevant_info", "generate_response",
                                "generate_conversational_response"}
                                   \cup RetrieveCalls(queried)
                   /\ store_request' = Request(queried, ChatTopK, mp)
                   /\ store_reply' = reply
                   /\ keyword_results' = kw
                   /\ result' = got.value
                   /\ raised' = got.raised
                   /\ response' = Respond(intent, got)
                   /\ enhanced_query' = eq
    /\ UNCHANGED <<knowledge_base, vocabulary, vector_dimension, index>>
    /\ UNCHANGED build_vars

\* lines 1679-1682: the input 'quit' ends main
Quit ==
    /\ pc = "prompt"
    /\ op = "ready"
    /\ pc' = "exited"
    /\ UNCHANGED <<knowledge_base, vocabulary, vector_dimension, index, steps,
                   catalog, pinecone, waited, sent, previous>>
    /\ UNCHANGED call_vars

NextBuild ==
    \/ Construct
    \/ PrepareKnowledgeBase
    \/ ListIndexes
    \/ DeleteIndex
    \/ CreateIndex
    \/ DescribeIndex
    \/ OpenIndex
    \/ UpsertBatch
    \/ ServeDirect
    \/ ServeRetrieve
    \/ NextInput
    \/ Refresh
    \/ Quit

SpecBuild == InitBuild /\ [][NextBuild]_vars

\* the readiness loop is sequential code: describe_index returns or raises
\* and time.sleep(2) returns, so a turn of the loop that can be taken is taken
SpecBuildFair == SpecBuild /\ WF_vars(DescribeIndex)

-----------------------------------------------------------------------------
(* Properties of search_products *)

\* the answer is a 200 whose JSON is an object with a list under 'products'
WellFormed(met) ==
    /\ met.outcome = "answer"
    /\ met.status_code = 200
    /\ met.is_json
    /\ met.data.type = "dict"
    /\ met.data.has_products
    /\ met.data.products.type = "list"

\* the items search_products reads are all objects
Success(met, limit) ==
    /\ WellFormed(met)
    /\ \A i \in 1..Len(met.data.products.items) :
           i <= limit => met.data.products.items[i].type = "dict"

\* the field of the returned record is '' when the item has none of the keys
DefaultsTo(record, field, item, keys) ==
    (keys \cap DOMAIN item.fields = {}) => record[field] = PyStr(EmptyStr)

\* C17: SnapdealAPIClient.search_products never raises: on a network error, a
\* non-200 status, a non-JSON body, or JSON of an unexpected shape it returns
\* an empty list, and on success it returns at most max_results records in
\* which missing fields default to the empty string.
C17_SearchProductsNeverRaises ==
    op = "search_products" =>
        /\ ~raised
        /\ ~Success(api_response, max_results) => result = << >>
        /\ Success(api_response, max_results) =>
               /\ Len(result) <= max_results
               /\ Len(result) <= Len(api_response.data.products.items)
               /\ \A i \in 1..Len(result) :
                      LET item == api_response.data.products.items[i]
                      IN  /\ DefaultsTo(result[i], "title", item, {"title", "name"})
                          /\ DefaultsTo(result[i], "price", item, {"price", "salePrice"})
                          /\ DefaultsTo(result[i], "original_price", item, {"mrp"})
                          /\ DefaultsTo(result[i], "discount", item, {"discount"})
                          /\ DefaultsTo(result[i], "rating", item, {"rating"})
                          /\ DefaultsTo(result[i], "url", item, {"url", "link"})

\* an answer with more products than max_results gave max_results records,
\* one of them with a missing title
C17_Witness ==
    /\ op = "search_products"
    /\ Success(api_response, max_results)
    /\ Len(api_response.data.products.items) > max_results
    /\ Len(result) = max_results
    /\ \E i \in 1..Len(result) : result[i].title = PyStr(EmptyStr)

-----------------------------------------------------------------------------
(* Properties of the build and of refresh *)

\* the ids of the vectors the index holds
UpsertedIds == {v.id : v \in index}

\* the generation is whole: the last build ran to its end, the dimension is
\* the fitted vocabulary's, the index exists with that dimension and holds a
\* vector for every record of the knowledge base and for nothing else
GenerationComplete ==
    /\ knowledge_base # << >>
    /\ steps[Len(steps)] = "upsert"
    /\ vector_dimension = Cardinality(vocabulary)
    /\ pinecone.exists
    /\ pinecone.dimension = vector_dimension
    /\ UpsertedIds = Range(Ids(knowledge_base))

StepsOf(entry, deleted) ==
    << entry, "_prepare_knowledge_base", "list_indexes" >>
        \o (IF deleted THEN << "delete_index" >> ELSE << >>)
        \o << "create_index", "describe_index", "Index", "upsert" >>

\* s is the beginning of t
IsPrefix(s, t) == Len(s) <= Len(t) /\ SubSeq(t, 1, Len(s)) = s

\* the steps performed, without the mark of an exception
Performed ==
    IF steps # << >> /\ steps[Len(steps)] = "raised"
    THEN SubSeq(steps, 1, Len(steps) - 1) ELSE steps

\* C15: at construction and at every refresh the steps occur in the order:
\* rebuild knowledge base and refit embedder, delete any existing index of
\* the same name, create the new index, wait for readiness, upsert; and after
\* the sequence completes every record of the knowledge base has been
\* upserted to the new index with its id.
C15_BuildOrder ==
    steps # << >> =>
        /\ \E deleted \in BOOLEAN : IsPrefix(Performed, StepsOf(steps[1], deleted))
        /\ pc = "create" => ~pinecone.exists
        /\ pc = "prompt" =>
               /\ \E deleted \in BOOLEAN : steps = StepsOf(steps[1], deleted)
               /\ steps[1] = "refresh" => "delete_index" \in Range(steps)
               /\ UpsertedIds = Range(Ids(knowledge_base))
               /\ \A i \in 1..Len(knowledge_base) :
                      \E v \in index : /\ v.id = knowledge_base[i].id
                                       /\ v.metadata = Metadata(knowledge_base[i])

\* a refresh ran to its end, deleting the index of the generation before
C15_Witness ==
    /\ pc = "prompt"
    /\ steps = StepsOf("refresh", TRUE)
    /\ UpsertedIds = Range(Ids(knowledge_base))
    /\ previous.ids # Ids(knowledge_base)

\* C16: whenever a query can be issued (after construction and after any
\* completed refresh), the dimension the index was created with equals the
\* dimension of the embedder's current fit, and every upserted vector and
\* every query vector has exactly that length.
C16_DimensionsAgree ==
    pc = "prompt" =>
        /\ pinecone.dimension = Cardinality(vocabulary)
        /\ vector_dimension = Cardinality(vocabulary)
        /\ op = "ready" => vocabulary = FitVocabulary(knowledge_base)
        /\ \A v \in index : v.dim = pinecone.dimension
        /\ \A q \in ServeQueries :
               Cardinality(DOMAIN Transform(vocabulary, q)) = pinecone.dimension

\* queries can be issued after a refresh that changed the dimension
C16_Witness ==
    /\ pc = "prompt"
    /\ steps[1] = "refresh"
    /\ previous.dimension # vector_dimension
    /\ pinecone.dimension = vector_dimension
    /\ index # {}

\* C19: rebuilding the knowledge base twice with the same Catalog Source
\* responses produces the same sequence of record ids and the same vector
\* dimension.
C19_RebuildDeterministic ==
    (previous # NoGeneration /\ previous.catalog = catalog) =>
        /\ Ids(knowledge_base) = previous.ids
        /\ vector_dimension = previous.dimension

\* a refresh met the responses of the build before it, live products among
\* them, and rebuilt the knowledge base
C19_Witness ==
    /\ previous # NoGeneration
    /\ previous.catalog = catalog
    /\ steps[1] = "refresh"
    /\ "_prepare_knowledge_base" \in Range(steps)
    /\ knowledge_base[1].id = "product_smartphones_0"

\* C20: after any build (startup or refresh) every record of the knowledge
\* base has a non-empty text and an id that no other record of the knowledge
\* base has, whatever products the Catalog Source returned.
C20_RecordsWellFormed ==
    "_prepare_knowledge_base" \in Range(steps) =>
        /\ \A i \in 1..Len(knowledge_base) : knowledge_base[i].text # EmptyStr
        /\ Cardinality(Range(Ids(knowledge_base))) = Len(knowledge_base)

\* a build kept several products of one query, after skipping one without
\* price, and added the fallback catalogue
C20_Witness ==
    /\ pc = "prompt"
    /\ steps # << >>
    /\ knowledge_base[1].id = "product_smartphones_1"
    /\ Len(knowledge_base) > Len(_get_fallback_products)

-----------------------------------------------------------------------------
(* Order of the returned matches *)

\* the scores of a list of matches never go up from one match to the next
NonIncreasing(ms) ==
    \A i \in 1..(Len(ms) - 1) : ~ScoreLess(ms[i].score, ms[i + 1].score)

\* position of the record with this id in the knowledge base
KbPosition(id) ==
    Min({i \in 1..Len(knowledge_base) : knowledge_base[i].id = id})

\* C21: in the list a call of retrieve_relevant_info returns, the scores are
\* non-increasing from the first match to the last, whichever path produced
\* the list (keyword results, price-filtered vector matches, unfiltered vector
\* matches), for a store that answers with its matches best score first.
C21_ScoresNonIncreasing ==
    (Retrieved /\ ~raised) => NonIncreasing(result)

\* a call that returned two keyword results of different scores, the better
\* one being the later record of the knowledge base
C21_Witness ==
    /\ Retrieved
    /\ ~raised
    /\ result = keyword_results
    /\ Len(result) >= 2
    /\ ScoreLess(result[2].score, result[1].score)
    /\ KbPosition(result[2].id) < KbPosition(result[1].id)

-----------------------------------------------------------------------------
(* The price filter for every max_price of the Intent Result *)

\* the code's own reading of the record's price is an integer above mp
ReadAbove(d, mp) ==
    LET p == ParsePrice(GetPrice(d), GetPriceType(d))
    IN  p.kind = "ok" /\ p.value > mp

\* the matches of the store's answer that the filter of lines 1493-1500
\* keeps for max_price
Survivors ==
    SelectIdx(store_reply.matches,
              {i \in 1..Len(store_reply.matches) :
                  VectorPriceKeep(store_reply.matches[i], max_price)}, 1)

\* C22: whenever the Intent Result carries a max_price, for every
\* non-negative value including 0, the price filter is applied in the
\* keyword search and to the vector matches, and the store is queried for
\* 3 x top_k matches.
C22_PriceFilterForEveryMaxPrice ==
    (/\ op = "chat"
     /\ Retrieved
     /\ GetMaxPrice(intent_data.entities) # None) =>
        /\ max_price = GetMaxPrice(intent_data.entities)
        /\ store_request # None => store_request = 3 * top_k
        /\ \A i \in 1..Len(keyword_results) :
               ~ReadAbove(keyword_results[i].metadata, max_price)
        /\ (store_reply.status = "ok" /\ Survivors # << >>) =>
               result = Take(Survivors, top_k)

-----------------------------------------------------------------------------
(* Price strings with and without the currency prefix *)

\* the record's price is a str (not a JSON number kept as it came)
StrPriced(d) == "price" \in d.keys /\ GetPriceType(d) = "str"

\* C23: a price string is parsed to the same integer whether or not it
\* carries the currency prefix, in the keyword price filter and in the
\* vector-match price filter alike: a record whose price is a plain
\* comma-grouped numeral is excluded when the numeral is above max_price and
\* kept when it is at or below max_price.
C23_PrefixOptional ==
    /\ (KeywordSearched /\ Truthy(max_price)) =>
           \A i \in 1..Len(keyword_results) :
               StrPriced(keyword_results[i].metadata) =>
                   ~PriceAbove(keyword_results[i].metadata, max_price)
    /\ (Retrieved /\ Truthy(max_price) /\ store_reply.status = "ok") =>
           \A i \in 1..Len(store_reply.matches) :
               (/\ StrPriced(store_reply.matches[i].metadata)
                /\ PriceWithin(store_reply.matches[i].metadata, max_price)) =>
                   \E j \in 1..Len(Survivors) :
                       Survivors[j] = store_reply.matches[i]

-----------------------------------------------------------------------------
(* _keyword_search on its own *)

\* queries for _keyword_search: empty and blank ones, upper case, a repeated
\* word, several words of one product name, several words inside one
\* category, a word of two characters
KeywordQueries ==
    { EmptyStr, <<" ">>, <<"S","a","m","s","u","n","g"," ","G","a","l","a","x","y">>, <<"s","a","m","s","u","n","g"," ","s","a","m","s","u","n","g">>,
      <<"n","o","k","i","a"," ","s","m","a","r","t","p","h","o","n","e","s">>, <<"s","m","a","r","t","p","h","o","n","e","s"," ","s","m","a","r","t","p","h","o","n","e"," ","m","o","b","i","l","e">>, <<"m","e","n"," ","s","h","i","r","t">>,
      <<"m","1","4"," ","5","g">>, <<"d","e","l","i","v","e","r","y"," ","d","a","y","s">> }

\* a call of _keyword_search(q, k, mp) with one of these queries
KeywordSearchWords ==
    /\ op = "ready"
    /\ \E q \in KeywordQueries, k \in 1..MaxTopK, mp \in MaxPrices :
           /\ op' = "_keyword_search"
           /\ user_query' = q
           /\ top_k' = k
           /\ max_price' = mp
           /\ intent_data' = NotRun
           /\ calls' = {}
           /\ store_request' = None
           /\ store_reply' = NoReply
           /\ keyword_results' = _keyword_search(knowledge_base, q, k, mp)
           /\ result' = keyword_results'
           /\ raised' = FALSE
           /\ response' = NoResponse
           /\ UNCHANGED <<knowledge_base, vocabulary, vector_dimension, index>>
           /\ UNCHANGED build_vars
           /\ UNCHANGED enhanced_query

NextKeyword ==
    \/ KeywordSearchWords
    \/ NextInput

SpecKeyword == Init /\ [][NextKeyword]_vars

-----------------------------------------------------------------------------
(* Properties of the keyword score *)

\* the distinct words of the query, case ignored
QueryWords(q) == Range(Split(Lower(q)))

\* query words that are whitespace-delimited words of the record's text
TextHits(d, q) ==
    {w \in QueryWords(q) :
        \E i \in 1..Len(Split(Lower(d.text))) : Split(Lower(d.text))[i] = w}

\* some query word is inside the category, or the category inside a word
CategoryHit(d, q) ==
    \E w \in QueryWords(q) :
        Contains(Lower(d.category), w) \/ Contains(w, Lower(d.category))

\* query words longer than 2 characters found inside the product name
NameHits(d, q) ==
    IF "product_name" \in d.keys
    THEN {w \in QueryWords(q) : Len(w) > 2 /\ Contains(Lower(d.product_name), w)}
    ELSE {}

\* the total the score is made of
TotalOverlap(d, q) ==
    Cardinality(TextHits(d, q)) + (IF CategoryHit(d, q) THEN 3 ELSE 0)
        + 4 * Cardinality(NameHits(d, q))

SameScore(a, b) == a.num * b.den = b.num * a.den

\* C24: for every record and query, the keyword score equals (number of
\* query words that are whitespace-delimited words of the lowercased text,
\* plus 3 at most once if some query word is a substring of the category or
\* the category of some query word, plus 4 for each query word longer than 2
\* characters that is a substring of the product name) divided by
\* max(1, number of distinct query words); case is ignored throughout.
C24_KeywordScore ==
    op = "_keyword_search" =>
        \A i \in 1..Len(result) :
            /\ result[i].metadata \in Range(knowledge_base)
            /\ result[i].id = result[i].metadata.id
            /\ SameScore(result[i].score,
                         Ratio(TotalOverlap(result[i].metadata, user_query),
                               Max({1, Cardinality(QueryWords(user_query))})))

\* a returned record scored on all three parts for a query of two words:
\* both are words of its text and parts of its name, one is in its category
C24_Witness ==
    /\ op = "_keyword_search"
    /\ Cardinality(QueryWords(user_query)) = 2
    /\ \E i \in 1..Len(result) :
           /\ Cardinality(TextHits(result[i].metadata, user_query)) = 2
           /\ CategoryHit(result[i].metadata, user_query)
           /\ Cardinality(NameHits(result[i].metadata, user_query)) = 2
           /\ result[i].score = Ratio(13, 2)

-----------------------------------------------------------------------------
(* Properties of the keyword ranking *)

\* the records of the knowledge base that the call scores: those the price
\* filter does not skip and whose total overlap is positive
Scored ==
    {i \in 1..Len(knowledge_base) :
        /\ ~KeywordPriceSkip(knowledge_base[i], max_price)
        /\ TotalOverlap(knowledge_base[i], user_query) > 0}

\* the score of the i-th record of the knowledge base for the query
ScoreOf(i) ==
    Ratio(TotalOverlap(knowledge_base[i], user_query),
          Max({1, Cardinality(QueryWords(user_query))}))

\* the i-th record is ranked before the j-th: a higher score, or the same
\* score and an earlier place in the knowledge base
RankedBefore(i, j) ==
    \/ ScoreLess(ScoreOf(j), ScoreOf(i))
    \/ SameScore(ScoreOf(i), ScoreOf(j)) /\ i < j

\* C25: _keyword_search returns only records with total overlap > 0 (every
\* returned score is > 0, an empty query returns nothing), ordered by
\* descending score with records of equal score in knowledge-base insertion
\* order, truncated to the first top_k.
C25_KeywordRanking ==
    op = "_keyword_search" =>
        /\ \A i \in 1..Len(result) :
               /\ KbPosition(result[i].id) \in Scored
               /\ ScoreLess(Ratio(0, 1), result[i].score)
        /\ QueryWords(user_query) = {} => result = << >>
        /\ \A i, j \in 1..Len(result) :
               i < j => RankedBefore(KbPosition(result[i].id),
                                     KbPosition(result[j].id))
        /\ Len(result) = Min({top_k, Cardinality(Scored)})
        /\ \A e \in Scored :
               (\A i \in 1..Len(result) : KbPosition(result[i].id) # e) =>
                   \A i \in 1..Len(result) :
                       RankedBefore(KbPosition(result[i].id), e)

\* a call that moved a later record of the knowledge base to the front, kept
\* the earlier of two records with the same score and cut off the other
C25_Witness ==
    /\ op = "_keyword_search"
    /\ Len(result) = 2
    /\ top_k = 2
    /\ KbPosition(result[2].id) < KbPosition(result[1].id)
    /\ \E e \in Scored :
           /\ KbPosition(result[2].id) < e
           /\ SameScore(ScoreOf(e), result[2].score)

-----------------------------------------------------------------------------
(* The fallback catalogue *)

\* the records of the knowledge base that are live products
LiveCount ==
    Cardinality({i \in 1..Len(knowledge_base) :
                    knowledge_base[i] \notin
                        Range(_get_store_info) \cup Range(_get_fallback_products)})

\* the knowledge base ends with the fallback catalogue
EndsWithFallback ==
    /\ Len(knowledge_base) >= Len(_get_fallback_products)
    /\ SubSeq(knowledge_base,
              Len(knowledge_base) - Len(_get_fallback_products) + 1,
              Len(knowledge_base)) = _get_fallback_products

\* C26: during a build the static fallback catalogue is appended exactly
\* when the knowledge base holds fewer than 15 records after the live
\* products and the store information have been added; a Catalog Source that
\* fails on every call still yields a build that holds the store information
\* and all fallback products.
C26_FallbackWhenSmall ==
    "_prepare_knowledge_base" \in Range(steps) =>
        /\ Range(_get_store_info) \subseteq Range(knowledge_base)
        /\ IF LiveCount + Len(_get_store_info) < 15
           THEN EndsWithFallback
           ELSE Range(_get_fallback_products) \cap Range(knowledge_base) = {}
        /\ catalog = <<ErrorAnswer, ErrorAnswer, ErrorAnswer, ErrorAnswer>> =>
               knowledge_base = _get_store_info \o _get_fallback_products

\* a build that ran to the prompt while every call of the Catalog Source
\* failed
C26_Witness ==
    /\ pc = "prompt"
    /\ "_prepare_knowledge_base" \in Range(steps)
    /\ catalog = <<ErrorAnswer, ErrorAnswer, ErrorAnswer, ErrorAnswer>>
    /\ LiveCount = 0
    /\ EndsWithFallback
    /\ Len(knowledge_base) = 87

-----------------------------------------------------------------------------
(* The readiness wait *)

\* one step of the readiness loop: it stays in the loop two time units
\* later, or leaves it for the index handle either because the poll reported
\* the index ready or because the sixty time units are used up
WaitStep ==
    pc = "wait" =>
        /\ pc' \in {"wait", "handle"}
        /\ pinecone'.ready => pc' = "handle"
        /\ pc' = "wait" => waited' = waited + 2
        /\ pc' = "handle" =>
               \/ pinecone'.ready /\ waited' = waited
               \/ ~pinecone'.ready /\ waited' = 60

\* C27: the index-readiness wait of _setup_pinecone_index always terminates:
\* it polls at most 30 times (waited never exceeds 60, in steps of 2), stops
\* at the first poll that reports ready, goes on polling after an error of
\* describe_index, and when readiness is never observed it still proceeds to
\* obtain the index handle rather than failing.
C27_ReadinessWaitTerminates ==
    /\ [](/\ waited \in 0..60
          /\ waited % 2 = 0
          /\ pc = "wait" => waited < 60)
    /\ [][WaitStep]_vars
    /\ (pc = "wait" ~> pc = "handle")

\* the loop ran out after thirty polls without the index being reported
\* ready, and the build goes on to obtain the handle
C27_Witness ==
    /\ pc = "handle"
    /\ waited = 60
    /\ pinecone.exists
    /\ ~pinecone.ready

-----------------------------------------------------------------------------
(* The assistant on its own: detect_intent, then enhance_query *)

\* longest query of these inputs, in phrases
MaxPhrases == 2

\* the phrases the queries are built from: words of the comparison and
\* recommendation patterns, product-type keywords (one inside another, two
\* in one phrase, upper case), and openings of the other intents
AssistantLexicon ==
    << <<"c","o","m","p","a","r","e">>, <<"p","h","o","n","e"," ","a","n","d"," ","w","a","t","c","h">>, <<"r","e","c","o","m","m","e","n","d">>, <<"s","u","g","g","e","s","t"," ","m","e">>,
       <<"h","e","a","d","p","h","o","n","e","s">>, <<"L","A","P","T","O","P">>, <<"t","a","b","l","e","t"," ","d","r","e","s","s">>, <<"s","h","o","e","s">>, <<"k","u","r","t","a">>,
       <<"p","r","i","c","e"," ","o","f">>, <<"s","h","o","w"," ","m","e">>, <<"u","n","d","e","r"," ","5","0","0">>, <<"t","e","l","l"," ","m","e"," ","a","b","o","u","t">>, <<"h","e","l","l","o">> >>

AssistantPhrase(ks) == Join([i \in 1..Len(ks) |-> AssistantLexicon[ks[i]]])

AssistantInputs ==
    UNION {[1..n -> 1..Len(AssistantLexicon)] : n \in 1..MaxPhrases}

InitAssistant ==
    /\ Idle
    /\ op = "input"
    /\ \E ks \in AssistantInputs : user_query = AssistantPhrase(ks)
    /\ intent_data = NotRun

\* a call of AIAssistant.enhance_query(intent_data) with what detect_intent
\* returned
EnhanceQuery ==
    /\ op = "detect_intent"
    /\ op' = "enhance_query"
    /\ enhanced_query' = enhance_query(intent_data)
    /\ UNCHANGED <<knowledge_base, vocabulary, vector_dimension, index, user_query,
                   top_k, max_price, intent_data, calls, store_request,
                   store_reply, keyword_results, result, raised, response>>
    /\ UNCHANGED build_vars

NextAssistant ==
    \/ DetectIntent
    \/ EnhanceQuery

SpecAssistant == InitAssistant /\ [][NextAssistant]_vars

-----------------------------------------------------------------------------
(* Properties of enhance_query *)

\* the product-type keywords in the order of the rules
RuleKeywords ==
    << <<"p","h","o","n","e">>, <<"l","a","p","t","o","p">>, <<"s","h","o","e">>, <<"d","r","e","s","s">>, <<"w","a","t","c","h">>, <<"h","e","a","d","p","h","o","n","e">>,
       <<"t","a","b","l","e","t">> >>

\* the rules whose keyword occurs in the phrase
RulesHit(phrase) ==
    {k \in 1..Len(RuleKeywords) : Contains(Lower(phrase), RuleKeywords[k])}

\* C28: enhance_query returns the extracted query phrase unchanged for every
\* intent other than search_product; for search_product it returns the
\* phrase followed by the synonym keywords of only the first rule (in the
\* order phone, laptop, shoe, dress, watch, headphone, tablet) whose keyword
\* occurs in the phrase, or the phrase unchanged if none occurs; the phrase
\* is always a prefix of the enhanced query.
C28_EnhanceQuery ==
    op = "enhance_query" =>
        LET phrase == intent_data.query
            hits == RulesHit(phrase)
        IN  /\ [k \in 1..Len(category_keywords) |-> category_keywords[k][1]]
                   = RuleKeywords
            /\ IsPrefix(phrase, enhanced_query)
            /\ IF intent_data.intent = "search_product" /\ hits # {}
               THEN enhanced_query =
                        phrase \o <<" ">> \o category_keywords[Min(hits)][2]
               ELSE enhanced_query = phrase

\* a search whose phrase holds the keywords of two rules, enhanced with the
\* synonyms of the first of them only
C28_Witness ==
    /\ op = "enhance_query"
    /\ intent_data.intent = "search_product"
    /\ RulesHit(intent_data.query) = {1, 6}
    /\ enhanced_query = intent_data.query \o <<" ","s","m","a","r","t","p","h","o","n","e"," ","m","o","b","i","l","e">>

-----------------------------------------------------------------------------
(* Prices of the matches listed under a price limit *)

\* the i-th retrieved match is one of the numbered entries of the response
Listed(i) ==
    /\ response.body.kind = "list"
    /\ \E k \in 1..Len(response.body.items) :
           /\ response.body.items[k].n = i
           /\ response.body.items[k].id = result[i].id

\* C29: for every chat whose Intent Result carries a positive max_price N
\* (the header of the response then names N), no match returned by
\* retrieve_relevant_info and listed in the response has a price that parses
\* to an integer greater than N, on any path through the merge policy.
C29_ListedWithinMaxPrice ==
    (/\ op = "chat"
     /\ Retrieved
     /\ GetMaxPrice(intent_data.entities) # None
     /\ GetMaxPrice(intent_data.entities) > 0) =>
        /\ response.under = GetMaxPrice(intent_data.entities)
        /\ \A i \in 1..Len(result) :
               Listed(i) =>
                   ~PriceAbove(result[i].metadata,
                               GetMaxPrice(intent_data.entities))

-----------------------------------------------------------------------------
(* The intents detect_intent returns *)

\* C30: for every input string detect_intent returns an intent in {greeting,
\* thanks, price_query, policy_query, search_product}; the comparison and
\* recommendation pattern lists are never consulted, so a query such as
\* "compare A and B" or "recommend X" is never classified comparison or
\* recommendation.
C30_IntentsReturned ==
    op \in {"detect_intent", "enhance_query"} =>
        intent_data.intent \in
               {"greeting", "thanks", "price_query", "policy_query",
                "search_product"}

\* detect_intent classified a query that a comparison pattern matches
C30_Witness ==
    /\ op = "detect_intent"
    /\ comparison_patterns(Strip(Lower(user_query)))
    /\ intent_data.intent = "search_product"
    /\ intent_data.query = user_query

====
